---- MODULE Spec2Model ----
(***************************************************************************)
(* Maze generation (generateMaze, ensurePathExists, createPathToEnd) and   *)
(* the four step algorithms (bfs, dfs, astar, dijkstra) of the maze        *)
(* explorer, as state machines over a heap of row arrays.                  *)
(*                                                                         *)
(* A grid (Cell[][]) is an outer array of references to row arrays: it is  *)
(* modelled as a function from row index to row id, and `heap` maps each   *)
(* row id to the row's cells.  Copying the outer array ([...grid]) copies  *)
(* the row ids; cloneMazeData allocates new rows.                          *)
(***************************************************************************)
EXTENDS Integers, Sequences, FiniteSets, TLC

VARIABLES
    heap,       \* Seq of rows; heap[id] = [0..width-1 -> Cell]
    width,      \* argument of generateMaze
    height,     \* argument of generateMaze
    mazeData,   \* the MazeData generateMaze works on / returns
    pc,         \* position inside generateMaze
    stack,      \* call stack of carvePath: frames [position, neighbors]
    loopI,      \* the loop variable i of the two post-processing loops
    walk,       \* (r, c) of the approach-corridor loop
    repaired,   \* TRUE once createPathToEnd has been invoked
    alg,        \* the algorithm instance (the closure state of bfs, dfs, ...)
    ret,        \* what the last call of next() returned
    resetData,  \* the result of resetMazeVisitation on the instance's maze
    paths,      \* the call of findMultiplePaths: its phase, paths, visited, dfs stack
    isRunning,  \* MazeExplorer state isRunning
    isDone,     \* MazeExplorer state isDone
    algorithm,  \* MazeExplorer state algorithm
    speed,      \* MazeExplorer state speed
    stats,      \* MazeExplorer state stats (without the elapsed time)
    animationRef, \* animationRef.current: a frame id, NoFrame or StaleFrame
    callbacks   \* the pending callbacks: delay timers and animation frames

genVars == <<width, height, pc, stack, loopI, walk, repaired>>
algVars == <<alg, ret, resetData>>
driverVars == <<isRunning, isDone, algorithm, speed, stats, animationRef, callbacks>>
vars == <<heap, mazeData, genVars, algVars, paths, driverVars>>

----------------------------------------------------------------------------
(* Bounds of the model *)

\* largest width generateMaze is called with
MaxWidth == 5
\* largest height generateMaze is called with
MaxHeight == 5

----------------------------------------------------------------------------
(* CellType, Position, Cell -- mazeUtils.ts 1-38 *)

WALL == "wall"
PATH == "path"
START == "start"
END == "end"
VISITED == "visited"
VISITING == "visiting"
SOLUTION == "solution"

\* the value of an optional field (parent, g, h, f) that is not set
Undefined == -1

Pos(row, col) == [row |-> row, col |-> col]

NoParent == Pos(Undefined, Undefined)

\* a Position object held by a cell: its identity is the slot (row array,
\* column) of the cell it was created for; two cells holding the same
\* identity hold the same object
PositionObject(rowId, row, col) == [row |-> row, col |-> col, id |-> << rowId, col >>]

NewCell(type, isStart, isEnd, position) ==
    [type |-> type, position |-> position, visited |-> FALSE, parent |-> NoParent,
     isStart |-> isStart, isEnd |-> isEnd,
     g |-> Undefined, h |-> Undefined, f |-> Undefined]

\* grid[p.row][p.col] for a grid g (row index -> row id) in heap hp
CellAt(hp, g, p) == hp[g[p.row]][p.col]

SetType(hp, g, p, t) == [hp EXCEPT ![g[p.row]][p.col].type = t]

InBounds(h, w, p) == p.row >= 0 /\ p.row < h /\ p.col >= 0 /\ p.col < w

\* grid.length and grid[0].length
GridHeight(g) == Cardinality(DOMAIN g)
GridWidth(hp, g) == Cardinality(DOMAIN hp[g[0]])

\* mutant: only the row is tested
InRange_RowOnly(hp, g, p) ==
    /\ p.row >= 0
    /\ p.row < GridHeight(g)

\* the range tests of isValidPosition
InRange(hp, g, p) ==
    /\ p.row >= 0
    /\ p.row < GridHeight(g)
    /\ p.col >= 0
    /\ p.col < GridWidth(hp, g)

\* isValidPosition: within the grid and not a wall
isValidPosition(hp, g, p) ==
    /\ InRange(hp, g, p)
    /\ CellAt(hp, g, p).type # WALL

manhattanDistance(p1, p2) ==
    (IF p1.row >= p2.row THEN p1.row - p2.row ELSE p2.row - p1.row)
    + (IF p1.col >= p2.col THEN p1.col - p2.col ELSE p2.col - p1.col)

\* up, right, down, left: the neighbour order of ensurePathExists and of
\* bfs, astar and dijkstra
Directions(p) ==
    << Pos(p.row - 1, p.col), Pos(p.row, p.col + 1),
       Pos(p.row + 1, p.col), Pos(p.row, p.col - 1) >>

----------------------------------------------------------------------------
(* createEmptyMaze *)

\* mutant: the start cell is not set
EmptyRow_NoStart(rowId, w, row) ==
    [col \in 0..(w - 1) |-> NewCell(WALL, FALSE, FALSE, PositionObject(rowId, row, col))]

\* the rows createEmptyMaze builds: all walls, the start cell at (0,0)
EmptyRow(rowId, w, row) ==
    [col \in 0..(w - 1) |->
        IF row = 0 /\ col = 0
        THEN NewCell(START, TRUE, FALSE, PositionObject(rowId, row, col))
        ELSE NewCell(WALL, FALSE, FALSE, PositionObject(rowId, row, col))]

\* allocates the rows at the end of heap hp; returns the new heap and MazeData
createEmptyMaze(hp, w, h) ==
    LET base == Len(hp)
        rows == [k \in 1..h |-> EmptyRow(base + k, w, k - 1)]
    IN  [heap |-> hp \o rows,
         maze |-> [grid |-> [row \in 0..(h - 1) |-> base + row + 1],
                   startPosition |-> Pos(0, 0),
                   endPosition |-> Pos(h - 1, w - 1),
                   width |-> w, height |-> h]]

----------------------------------------------------------------------------
(* cloneMazeData *)

\* mutant: the cells are copied without their parent
cloneMazeData_DropParent(hp, m) ==
    LET base == Len(hp)
        h == GridHeight(m.grid)
        rows == [k \in 1..h |->
                   [col \in DOMAIN hp[m.grid[k - 1]] |->
                       [hp[m.grid[k - 1]][col] EXCEPT !.parent = NoParent]]]
    IN  [heap |-> hp \o rows,
         maze |-> [grid |-> [row \in 0..(h - 1) |-> base + row + 1],
                   startPosition |-> m.startPosition,
                   endPosition |-> m.endPosition,
                   width |-> m.width, height |-> m.height]]

cloneMazeData(hp, m) ==
    LET base == Len(hp)
        h == GridHeight(m.grid)
        rows == [k \in 1..h |-> hp[m.grid[k - 1]]]
    IN  [heap |-> hp \o rows,
         maze |-> [grid |-> [row \in 0..(h - 1) |-> base + row + 1],
                   startPosition |-> m.startPosition,
                   endPosition |-> m.endPosition,
                   width |-> m.width, height |-> m.height]]

----------------------------------------------------------------------------
(* ensurePathExists / createPathToEnd *)

\* the positions of ds, in order, that the BFS of ensurePathExists enqueues
RECURSIVE EnqueueDirs(_, _, _, _, _)
EnqueueDirs(hp, g, ds, k, qv) ==
    IF k > Len(ds) THEN qv
    ELSE IF isValidPosition(hp, g, ds[k]) /\ ds[k] \notin qv.visited
         THEN EnqueueDirs(hp, g, ds, k + 1,
                          [queue |-> Append(qv.queue, ds[k]),
                           visited |-> qv.visited \cup {ds[k]}])
         ELSE EnqueueDirs(hp, g, ds, k + 1, qv)

\* the while loop of ensurePathExists: TRUE iff the end is dequeued
RECURSIVE PathSearch(_, _, _, _)
PathSearch(hp, m, queue, visited) ==
    IF queue = << >> THEN FALSE
    ELSE LET current == Head(queue)
         IN  IF current = m.endPosition THEN TRUE
             ELSE CHOOSE r \in
                    { PathSearch(hp, m, qv.queue, qv.visited) :
                      qv \in { EnqueueDirs(hp, m.grid, Directions(current), 1,
                                   [queue |-> Tail(queue), visited |-> visited]) } } : TRUE

PathExists(hp, m) ==
    PathSearch(hp, m, << m.startPosition >>, {m.startPosition})

\* one iteration of the zigzag loop: horizontal first, then vertical
\* mutant: the corridor goes along the start's column first
ZigzagNext_VerticalFirst(cur, endP) ==
    IF cur.row < endP.row THEN Pos(cur.row + 1, cur.col)
    ELSE IF cur.row > endP.row THEN Pos(cur.row - 1, cur.col)
    ELSE IF cur.col < endP.col THEN Pos(cur.row, cur.col + 1)
    ELSE IF cur.col > endP.col THEN Pos(cur.row, cur.col - 1)
    ELSE cur

ZigzagNext(cur, endP) ==
    IF cur.col < endP.col THEN Pos(cur.row, cur.col + 1)
    ELSE IF cur.col > endP.col THEN Pos(cur.row, cur.col - 1)
    ELSE IF cur.row < endP.row THEN Pos(cur.row + 1, cur.col)
    ELSE IF cur.row > endP.row THEN Pos(cur.row - 1, cur.col)
    ELSE cur

RECURSIVE ZigzagCarve(_, _, _, _)
ZigzagCarve(hp, g, cur, endP) ==
    IF cur = endP THEN hp
    ELSE LET nxt == ZigzagNext(cur, endP)
             cell == CellAt(hp, g, nxt)
             hp2 == IF ~cell.isStart /\ ~cell.isEnd THEN SetType(hp, g, nxt, PATH)
                                                   ELSE hp
         IN  ZigzagCarve(hp2, g, nxt, endP)

\* mutant: the corridor is carved into the argument itself
createPathToEnd_InPlace(hp, m) ==
    [heap |-> ZigzagCarve(hp, m.grid, m.startPosition, m.endPosition), maze |-> m]

\* createPathToEnd: carves on a clone; returns new heap and MazeData
createPathToEnd(hp, m) ==
    LET cl == cloneMazeData(hp, m)
        hp2 == ZigzagCarve(cl.heap, cl.maze.grid, cl.maze.startPosition,
                           cl.maze.endPosition)
    IN  [heap |-> hp2, maze |-> [m EXCEPT !.grid = cl.maze.grid]]

\* mutant: the search result is ignored and the maze returned as it is
ensurePathExists_NoRepair(hp, m) ==
    [heap |-> hp, maze |-> m, repaired |-> FALSE]

\* ensurePathExists: the maze itself when the end is reachable, else the repair
ensurePathExists(hp, m) ==
    IF PathExists(hp, m)
    THEN [heap |-> hp, maze |-> m, repaired |-> FALSE]
    ELSE LET rp == createPathToEnd(hp, m)
         IN  [heap |-> rp.heap, maze |-> rp.maze, repaired |-> TRUE]

----------------------------------------------------------------------------
(* generateMaze *)

\* the three corners that are not the start, in the order of the source
potentialEndPositions(w, h) ==
    << Pos(0, w - 1), Pos(h - 1, 0), Pos(h - 1, w - 1) >>

\* the corners left after removing the start position
filteredPositions(w, h, startPosition) ==
    SelectSeq(potentialEndPositions(w, h), LAMBDA pos : pos # startPosition)

\* the directions of getUnvisitedNeighbors that pass its range test
LatticeReads(h, w, p) ==
    { d \in { Pos(p.row - 2, p.col), Pos(p.row + 2, p.col),
              Pos(p.row, p.col - 2), Pos(p.row, p.col + 2) } :
        InBounds(h, w, d) }

\* getUnvisitedNeighbors: lattice neighbours (distance 2) that are WALL
getUnvisitedNeighbors(hp, m, p) ==
    { d \in LatticeReads(m.height, m.width, p) : CellAt(hp, m.grid, d).type = WALL }

\* entry of carvePath(p): mark the cell, collect its neighbours.  The shuffled
\* list is kept as the set of entries not yet iterated: any order can come out
\* of the random sort, so the loop takes them in any order.
CarveEnter(hp, m, p) ==
    LET cell == CellAt(hp, m.grid, p)
        hp2 == IF ~cell.isStart /\ ~cell.isEnd THEN SetType(hp, m.grid, p, PATH)
                                               ELSE hp
    IN  [heap |-> hp2,
         frame |-> [position |-> p, neighbors |-> getUnvisitedNeighbors(hp2, m, p)]]

\* Math.floor(width * height * 0.15)
additionalPaths(w, h) == (w * h * 15) \div 100

\* size of the region around the end the approach corridors start in
endRegion == 3

Max(a, b) == IF a >= b THEN a ELSE b
Min(a, b) == IF a <= b THEN a ELSE b

\* a random interior index: Math.floor(Math.random() * (n - 2)) + 1
InteriorIndexes(n) == { k + 1 : k \in 0..Max(n - 3, 0) }

\* Math.max(0, Math.min(e - endRegion + floor(random * endRegion * 2), n - 1))
NearEndIndexes(e, n) ==
    { Max(0, Min(e - endRegion + k, n - 1)) : k \in 0..(endRegion * 2 - 1) }

TypeIs(hp, g, row, col, t) == hp[g[row]][col].type = t

\* the test of the extra-openings loop on the wall cell (row, col)
ConnectsPaths(hp, m, row, col) ==
    LET g == m.grid
        w == m.width
        h == m.height
        hasHorizontalPathNeighbors ==
            /\ col > 0 /\ TypeIs(hp, g, row, col - 1, PATH)
            /\ col < w - 1 /\ TypeIs(hp, g, row, col + 1, PATH)
        hasVerticalPathNeighbors ==
            /\ row > 0 /\ TypeIs(hp, g, row - 1, col, PATH)
            /\ row < h - 1 /\ TypeIs(hp, g, row + 1, col, PATH)
        hasDiagonalPathNeighbors ==
            /\ row > 0 /\ col > 0 /\ TypeIs(hp, g, row - 1, col - 1, PATH)
            /\ row < h - 1 /\ col < w - 1 /\ TypeIs(hp, g, row + 1, col + 1, PATH)
    IN  hasHorizontalPathNeighbors \/ hasVerticalPathNeighbors
            \/ hasDiagonalPathNeighbors

\* mutant: the bounds filter keeps nothing
validAdjacents_None(m) == << >>

\* the in-bounds orthogonal neighbours of the end: up, right, down, left
validAdjacents(m) ==
    SelectSeq(Directions(m.endPosition),
              LAMBDA d : InBounds(m.height, m.width, d))

\* mutant: the search for a PATH neighbour always reports one
hasAdjacentPath_Always(hp, m) == TRUE

hasAdjacentPath(hp, m) ==
    \E k \in 1..Len(validAdjacents(m)) :
        CellAt(hp, m.grid, validAdjacents(m)[k]).type = PATH

----------------------------------------------------------------------------
(* The step algorithms: common parts -- part_005 140-266 *)

\* a large finite stand-in for the number Infinity (dijkstra's initial g)
Infinity == 1000000

\* an AlgorithmStep; elapsedTime (wall clock) is left out
Step(grid, visitedCount, pathLength, done, success) ==
    [kind |-> "step", grid |-> grid, visitedCount |-> visitedCount,
     pathLength |-> pathLength, isDone |-> done, success |-> success]

\* the value null returned by next()
Null == [kind |-> "null", grid |-> << >>, visitedCount |-> 0,
         pathLength |-> 0, isDone |-> FALSE, success |-> FALSE]

\* next() has not been called yet
NoRet == [Null EXCEPT !.kind = "none"]

\* [...grid]: a new outer array holding the same row references
SpreadGrid(grid) == [row \in DOMAIN grid |-> grid[row]]

\* the closure state of an algorithm instance; `list` is bfs's and dijkstra's
\* queue, dfs's stack, astar's openSet
Instance(name, m, list) ==
    [name |-> name, grid |-> m.grid, startPosition |-> m.startPosition,
     endPosition |-> m.endPosition, list |-> list, closedSet |-> {},
     visitedCount |-> 0, isDone |-> FALSE, success |-> FALSE]

NoAlg == [name |-> "none", grid |-> << >>, startPosition |-> Pos(0, 0),
          endPosition |-> Pos(0, 0), list |-> << >>, closedSet |-> {},
          visitedCount |-> 0, isDone |-> FALSE, success |-> FALSE]

AllPositions(hp, g) ==
    { Pos(row, col) : row \in DOMAIN g, col \in 0..(GridWidth(hp, g) - 1) }

\* countVisited: the number of cells whose visited flag is set
countVisited(hp, g) ==
    Cardinality(UNION { { p \in AllPositions(v, g) : CellAt(v, g, p).visited } : v \in {hp} })

\* mutant: every cell stepped back to is marked, the start included
RECURSIVE WalkParents_MarkStart(_, _, _, _)
WalkParents_MarkStart(hp, g, current, n) ==
    LET parent == CellAt(hp, g, current).parent
    IN  IF parent = NoParent
        THEN [heap |-> hp, length |-> n + 1]
        ELSE CHOOSE r \in { WalkParents_MarkStart(v, g, parent, n + 1) :
                            v \in {SetType(hp, g, parent, SOLUTION)} } : TRUE

\* reconstructPath of the algorithms: walks parent from `current`, marks every
\* cell it steps back to SOLUTION unless it is the start or the end; n counts
\* the positions put on the path so far
\* (a value is bound by a one-element set, here and below, so that it is
\* computed once however often the rest of the expression reads it)
RECURSIVE WalkParents(_, _, _, _)
WalkParents(hp, g, current, n) ==
    LET parent == CellAt(hp, g, current).parent
    IN  IF parent = NoParent
        THEN [heap |-> hp, length |-> n + 1]
        ELSE LET pcell == CellAt(hp, g, parent)
                 hp2 == IF ~pcell.isStart /\ ~pcell.isEnd
                        THEN SetType(hp, g, parent, SOLUTION)
                        ELSE hp
             IN  CHOOSE r \in { WalkParents(v, g, parent, n + 1) : v \in {hp2} } : TRUE

reconstructPath(hp, a) == WalkParents(hp, a.grid, a.endPosition, 0)

\* the branch taken when the end is taken from the frontier
ReachedEnd(hp, a) ==
    CHOOSE r \in
        { [heap |-> rp.heap,
           alg |-> [a EXCEPT !.isDone = TRUE, !.success = TRUE],
           ret |-> Step(SpreadGrid(a.grid), countVisited(rp.heap, a.grid),
                        rp.length, TRUE, TRUE)] : rp \in {reconstructPath(hp, a)} } : TRUE

\* the first lines of next(): the run is over, or the frontier is empty
Finished(hp, a) ==
    [heap |-> hp, alg |-> [a EXCEPT !.isDone = TRUE], ret |-> Null]

\* mutant: the expanded cell keeps the kind VISITING
MarkVisited_Skip(hp, g, p) == hp

\* "mark current as visited": VISITED unless start or end
MarkVisited(hp, g, p) ==
    IF ~CellAt(hp, g, p).isStart /\ ~CellAt(hp, g, p).isEnd
    THEN SetType(hp, g, p, VISITED)
    ELSE hp

\* mutant: the neighbour is queued without setting its visited flag
Discover_NoVisited(hp, g, d, current) ==
    LET cell == CellAt(hp, g, d)
    IN  [hp EXCEPT ![g[d.row]][d.col] =
            [cell EXCEPT !.parent = current,
                         !.type = IF cell.isEnd THEN cell.type ELSE VISITING]]

\* mutant: the end is marked VISITING like any other neighbour
Discover_MarkEnd(hp, g, d, current) ==
    LET cell == CellAt(hp, g, d)
    IN  [hp EXCEPT ![g[d.row]][d.col] =
            [cell EXCEPT !.visited = TRUE, !.parent = current, !.type = VISITING]]

\* a neighbour found for the first time by bfs or dfs
Discover(hp, g, d, current) ==
    LET cell == CellAt(hp, g, d)
    IN  [hp EXCEPT ![g[d.row]][d.col] =
            [cell EXCEPT !.visited = TRUE, !.parent = current,
                         !.type = IF cell.isEnd THEN cell.type ELSE VISITING]]

\* mutant: the loop over the directions stops at the first neighbour it finds
RECURSIVE Explore_FirstOnly(_, _, _, _, _)
Explore_FirstOnly(g, ds, k, current, hl) ==
    IF k > Len(ds) THEN hl
    ELSE IF isValidPosition(hl.heap, g, ds[k]) /\ ~CellAt(hl.heap, g, ds[k]).visited
         THEN [heap |-> Discover(hl.heap, g, ds[k], current),
               list |-> Append(hl.list, ds[k])]
         ELSE Explore_FirstOnly(g, ds, k + 1, current, hl)

\* mutant: a neighbour is taken whether or not it has been visited
RECURSIVE Explore_Revisit(_, _, _, _, _)
Explore_Revisit(g, ds, k, current, hl) ==
    IF k > Len(ds) THEN hl
    ELSE IF isValidPosition(hl.heap, g, ds[k])
         THEN Explore_Revisit(g, ds, k + 1, current,
                              [heap |-> Discover(hl.heap, g, ds[k], current),
                               list |-> Append(hl.list, ds[k])])
         ELSE Explore_Revisit(g, ds, k + 1, current, hl)

\* the neighbour loop of bfs and dfs over the directions ds: hl = [heap, list]
RECURSIVE Explore(_, _, _, _, _)
Explore(g, ds, k, current, hl) ==
    IF k > Len(ds) THEN hl
    ELSE CHOOSE r \in
           { IF isValidPosition(v.heap, g, ds[k]) /\ ~CellAt(v.heap, g, ds[k]).visited
             THEN Explore(g, ds, k + 1, current,
                          [heap |-> Discover(v.heap, g, ds[k], current),
                           list |-> Append(v.list, ds[k])])
             ELSE Explore(g, ds, k + 1, current, v) : v \in {hl} } : TRUE

----------------------------------------------------------------------------
(* bfs -- part_005 160-266 *)

\* bfs(mazeData): the queue holds the start, which is marked
bfs(hp, m) ==
    [heap |-> [hp EXCEPT ![m.grid[m.startPosition.row]][m.startPosition.col] =
                    [@ EXCEPT !.visited = TRUE, !.type = VISITING]],
     alg |-> Instance("bfs", m, << m.startPosition >>)]

\* the body of next() when the run is not over: one expansion
bfsStep(hp, a) ==
    LET current == Head(a.list)
        a1 == [a EXCEPT !.list = Tail(a.list)]
    IN  IF current = a.endPosition THEN ReachedEnd(hp, a1)
        ELSE CHOOSE r \in
               { [heap |-> hl.heap,
                  alg |-> [a1 EXCEPT !.list = hl.list],
                  ret |-> Step(SpreadGrid(a.grid), countVisited(hl.heap, a.grid),
                               0, a.isDone, a.success)] :
                 hl \in { Explore(a.grid, Directions(current), 1, current,
                                  [heap |-> MarkVisited(hp, a.grid, current),
                                   list |-> a1.list]) } } : TRUE

\* mutant: the frontier is taken from the wrong end (pop instead of shift)
bfsNext_Pop(hp, a) ==
    IF a.isDone \/ a.list = << >> THEN Finished(hp, a)
    ELSE bfsStep(hp, [a EXCEPT !.list = << a.list[Len(a.list)] >>
                                        \o SubSeq(a.list, 1, Len(a.list) - 1)])

bfsNext(hp, a) ==
    IF a.isDone \/ a.list = << >> THEN Finished(hp, a) ELSE bfsStep(hp, a)

----------------------------------------------------------------------------
(* dfs -- part_005 269-376 *)

\* left, down, right, up: the neighbour order of dfs
DirectionsDfs(p) ==
    << Pos(p.row, p.col - 1), Pos(p.row + 1, p.col),
       Pos(p.row, p.col + 1), Pos(p.row - 1, p.col) >>

dfs(hp, m) ==
    [heap |-> [hp EXCEPT ![m.grid[m.startPosition.row]][m.startPosition.col] =
                    [@ EXCEPT !.visited = TRUE, !.type = VISITING]],
     alg |-> Instance("dfs", m, << m.startPosition >>)]

dfsStep(hp, a) ==
    LET current == a.list[Len(a.list)]
        a1 == [a EXCEPT !.list = SubSeq(a.list, 1, Len(a.list) - 1)]
    IN  IF current = a.endPosition THEN ReachedEnd(hp, a1)
        ELSE CHOOSE r \in
               { [heap |-> hl.heap,
                  alg |-> [a1 EXCEPT !.list = hl.list,
                                     !.visitedCount = a.visitedCount + 1],
                  ret |-> Step(SpreadGrid(a.grid), a.visitedCount + 1,
                               0, a.isDone, a.success)] :
                 hl \in { Explore(a.grid, DirectionsDfs(current), 1, current,
                                  [heap |-> MarkVisited(hp, a.grid, current),
                                   list |-> a1.list]) } } : TRUE

\* mutant: next() tests only the stack, not isDone
dfsNext_NoDoneCheck(hp, a) ==
    IF a.list = << >> THEN Finished(hp, a) ELSE dfsStep(hp, a)

dfsNext(hp, a) ==
    IF a.isDone \/ a.list = << >> THEN Finished(hp, a) ELSE dfsStep(hp, a)

----------------------------------------------------------------------------
(* astar -- part_005 379-519 *)

\* mutant: the scan keeps the last entry instead of the lowest
LowestIndex_Last(hp, g, list, field, i, lowest) == Len(list)

\* the scan for the entry of `list` with the lowest cost (field f or g):
\* a later entry replaces the candidate only when strictly lower
RECURSIVE LowestIndex(_, _, _, _, _, _)
LowestIndex(hp, g, list, field, i, lowest) ==
    IF i > Len(list) THEN lowest
    ELSE IF CellAt(hp, g, list[i])[field] < CellAt(hp, g, list[lowest])[field]
         THEN LowestIndex(hp, g, list, field, i + 1, i)
         ELSE LowestIndex(hp, g, list, field, i + 1, lowest)

\* list.splice(i, 1)
Splice(list, i) == SubSeq(list, 1, i - 1) \o SubSeq(list, i + 1, Len(list))

InList(list, p) == \E k \in 1..Len(list) : list[k] = p

astar(hp, m) ==
    [heap |-> [hp EXCEPT ![m.grid[m.startPosition.row]][m.startPosition.col] =
                    [@ EXCEPT !.g = 0,
                              !.h = manhattanDistance(m.startPosition, m.endPosition),
                              !.f = manhattanDistance(m.startPosition, m.endPosition),
                              !.visited = TRUE, !.type = VISITING]],
     alg |-> Instance("astar", m, << m.startPosition >>)]

\* "this path is better, record it"
RecordBetter(hp, g, d, current, tentativeG, endPosition) ==
    [hp EXCEPT ![g[d.row]][d.col] =
        [@ EXCEPT !.parent = current, !.g = tentativeG,
                  !.h = manhattanDistance(d, endPosition),
                  !.f = tentativeG + manhattanDistance(d, endPosition)]]

\* the body of the neighbour loop of astar for direction ds[k], followed by
\* the rest of the loop
RECURSIVE AstarNeighbors(_, _, _, _, _)
\* mutant: a neighbour already in the open set is recorded again whatever
\* its stored g
AstarNeighbor_AlwaysRecord(a, ds, k, current, hl) ==
    LET d == ds[k]
        g == a.grid
    IN  IF ~isValidPosition(hl.heap, g, d) \/ d \in a.closedSet
        THEN AstarNeighbors(a, ds, k + 1, current, hl)
        ELSE LET tentativeG == CellAt(hl.heap, g, current).g + 1
                 neighbor == CellAt(hl.heap, g, d)
                 hp1 == IF InList(hl.list, d) THEN hl.heap
                        ELSE [hl.heap EXCEPT ![g[d.row]][d.col] =
                                [neighbor EXCEPT
                                    !.visited = TRUE,
                                    !.type = IF neighbor.isEnd THEN neighbor.type
                                             ELSE VISITING]]
             IN  AstarNeighbors(a, ds, k + 1, current,
                     [heap |-> RecordBetter(hp1, g, d, current, tentativeG, a.endPosition),
                      list |-> IF InList(hl.list, d) THEN hl.list
                               ELSE Append(hl.list, d)])

AstarNeighbor(a, ds, k, current, hl) ==
    LET d == ds[k]
        g == a.grid
    IN  IF ~isValidPosition(hl.heap, g, d) \/ d \in a.closedSet
        THEN AstarNeighbors(a, ds, k + 1, current, hl)
        ELSE LET tentativeG == CellAt(hl.heap, g, current).g + 1
             IN  IF ~InList(hl.list, d)
                 THEN LET neighbor == CellAt(hl.heap, g, d)
                          hp1 == [hl.heap EXCEPT ![g[d.row]][d.col] =
                                    [neighbor EXCEPT
                                        !.visited = TRUE,
                                        !.type = IF neighbor.isEnd THEN neighbor.type
                                                 ELSE VISITING]]
                      IN  AstarNeighbors(a, ds, k + 1, current,
                              [heap |-> RecordBetter(hp1, g, d, current,
                                                     tentativeG, a.endPosition),
                               list |-> Append(hl.list, d)])
                 ELSE IF tentativeG >= CellAt(hl.heap, g, d).g
                 THEN AstarNeighbors(a, ds, k + 1, current, hl)
                 ELSE AstarNeighbors(a, ds, k + 1, current,
                              [heap |-> RecordBetter(hl.heap, g, d, current,
                                                     tentativeG, a.endPosition),
                               list |-> hl.list])

\* the neighbour loop of astar: hl = [heap, list (the open set)]
AstarNeighbors(a, ds, k, current, hl) ==
    IF k > Len(ds) THEN hl
    ELSE CHOOSE r \in { AstarNeighbor(a, ds, k, current, v) : v \in {hl} } : TRUE

\* mutant: the scan is by h alone (greedy best-first)
astarStep_Greedy(hp, a) ==
    LET lowestIndex == LowestIndex(hp, a.grid, a.list, "h", 1, 1)
        current == a.list[lowestIndex]
    IN  IF current = a.endPosition THEN ReachedEnd(hp, a)
        ELSE LET a1 == [a EXCEPT !.list = Splice(a.list, lowestIndex),
                                 !.closedSet = a.closedSet \cup {current},
                                 !.visitedCount = a.visitedCount + 1]
             IN  CHOOSE r \in
                   { [heap |-> hl.heap,
                      alg |-> [a1 EXCEPT !.list = hl.list],
                      ret |-> Step(SpreadGrid(a.grid), a1.visitedCount,
                                   0, a.isDone, a.success)] :
                     hl \in { AstarNeighbors(a1, Directions(current), 1, current,
                                  [heap |-> MarkVisited(hp, a.grid, current),
                                   list |-> a1.list]) } } : TRUE

astarStep(hp, a) ==
    LET lowestIndex == LowestIndex(hp, a.grid, a.list, "f", 1, 1)
        current == a.list[lowestIndex]
    IN  IF current = a.endPosition THEN ReachedEnd(hp, a)
        ELSE LET a1 == [a EXCEPT !.list = Splice(a.list, lowestIndex),
                                 !.closedSet = a.closedSet \cup {current},
                                 !.visitedCount = a.visitedCount + 1]
             IN  CHOOSE r \in
                   { [heap |-> hl.heap,
                      alg |-> [a1 EXCEPT !.list = hl.list],
                      ret |-> Step(SpreadGrid(a.grid), a1.visitedCount,
                                   0, a.isDone, a.success)] :
                     hl \in { AstarNeighbors(a1, Directions(current), 1, current,
                                  [heap |-> MarkVisited(hp, a.grid, current),
                                   list |-> a1.list]) } } : TRUE

astarNext(hp, a) ==
    IF a.isDone \/ a.list = << >> THEN Finished(hp, a) ELSE astarStep(hp, a)

----------------------------------------------------------------------------
(* dijkstra -- part_005 522-656 *)

dijkstra(hp, m) ==
    LET s == m.startPosition
        rowIds == { m.grid[row] : row \in DOMAIN m.grid }
        hp1 == [id \in DOMAIN hp |->
                  IF id \in rowIds
                  THEN [col \in DOMAIN hp[id] |-> [hp[id][col] EXCEPT !.g = Infinity]]
                  ELSE hp[id]]
    IN  [heap |-> [hp1 EXCEPT ![m.grid[s.row]][s.col] =
                      [@ EXCEPT !.g = 0, !.visited = TRUE, !.type = VISITING]],
         alg |-> Instance("dijkstra", m, << s >>)]

\* the body of the neighbour loop of dijkstra for direction ds[k], followed
\* by the rest of the loop
RECURSIVE DijkstraNeighbors(_, _, _, _, _)
\* mutant: a neighbour is relaxed when the new distance is not larger (<=)
DijkstraNeighbor_RelaxEqual(g, ds, k, current, hl) ==
    LET d == ds[k]
    IN  IF ~isValidPosition(hl.heap, g, d)
        THEN DijkstraNeighbors(g, ds, k + 1, current, hl)
        ELSE LET neighbor == CellAt(hl.heap, g, d)
                 newDist == CellAt(hl.heap, g, current).g + 1
             IN  IF newDist <= neighbor.g
                 THEN DijkstraNeighbors(g, ds, k + 1, current,
                        [heap |-> [hl.heap EXCEPT ![g[d.row]][d.col] =
                                     [neighbor EXCEPT
                                         !.g = newDist, !.parent = current,
                                         !.visited = TRUE,
                                         !.type = IF neighbor.visited \/ neighbor.isEnd
                                                  THEN neighbor.type ELSE VISITING]],
                         list |-> IF neighbor.visited THEN hl.list
                                  ELSE Append(hl.list, d)])
                 ELSE DijkstraNeighbors(g, ds, k + 1, current, hl)

DijkstraNeighbor(g, ds, k, current, hl) ==
    LET d == ds[k]
    IN  IF ~isValidPosition(hl.heap, g, d)
        THEN DijkstraNeighbors(g, ds, k + 1, current, hl)
        ELSE LET neighbor == CellAt(hl.heap, g, d)
                 newDist == CellAt(hl.heap, g, current).g + 1
             IN  IF newDist < neighbor.g
                 THEN DijkstraNeighbors(g, ds, k + 1, current,
                        [heap |-> [hl.heap EXCEPT ![g[d.row]][d.col] =
                                     [neighbor EXCEPT
                                         !.g = newDist, !.parent = current,
                                         !.visited = TRUE,
                                         !.type = IF neighbor.visited \/ neighbor.isEnd
                                                  THEN neighbor.type ELSE VISITING]],
                         list |-> IF neighbor.visited THEN hl.list
                                  ELSE Append(hl.list, d)])
                 ELSE DijkstraNeighbors(g, ds, k + 1, current, hl)

\* the neighbour loop of dijkstra: hl = [heap, list (the queue)]
DijkstraNeighbors(g, ds, k, current, hl) ==
    IF k > Len(ds) THEN hl
    ELSE CHOOSE r \in { DijkstraNeighbor(g, ds, k, current, v) : v \in {hl} } : TRUE

dijkstraStep(hp, a) ==
    LET minIndex == LowestIndex(hp, a.grid, a.list, "g", 1, 1)
        current == a.list[minIndex]
        a1 == [a EXCEPT !.list = Splice(a.list, minIndex)]
    IN  IF current = a.endPosition THEN ReachedEnd(hp, a1)
        ELSE LET a2 == [a1 EXCEPT !.visitedCount = a.visitedCount + 1]
             IN  CHOOSE r \in
                   { [heap |-> hl.heap,
                      alg |-> [a2 EXCEPT !.list = hl.list],
                      ret |-> Step(SpreadGrid(a.grid), a2.visitedCount,
                                   0, a.isDone, a.success)] :
                     hl \in { DijkstraNeighbors(a.grid, Directions(current), 1, current,
                                  [heap |-> MarkVisited(hp, a.grid, current),
                                   list |-> a2.list]) } } : TRUE

dijkstraNext(hp, a) ==
    IF a.isDone \/ a.list = << >> THEN Finished(hp, a) ELSE dijkstraStep(hp, a)

----------------------------------------------------------------------------
(* resetMazeVisitation -- mazeUtils.ts 380-406 *)

\* mutant: the cell is rebuilt from its type alone, the flags are lost
ResetCell_DropFlags(cell) ==
    NewCell(IF cell.type \in {VISITED, VISITING, SOLUTION} THEN PATH ELSE cell.type,
            FALSE, FALSE, cell.position)

\* mutant: the costs g, h and f are left as the search set them
ResetCell_KeepCosts(cell) ==
    [cell EXCEPT !.visited = FALSE, !.parent = NoParent,
                 !.type = IF cell.type \in {VISITED, VISITING, SOLUTION}
                          THEN (IF cell.isStart THEN START
                                ELSE IF cell.isEnd THEN END ELSE PATH)
                          ELSE cell.type]

ResetCell(cell) ==
    [cell EXCEPT !.visited = FALSE, !.parent = NoParent,
                 !.g = Undefined, !.h = Undefined, !.f = Undefined,
                 !.type = IF cell.type \in {VISITED, VISITING, SOLUTION}
                          THEN (IF cell.isStart THEN START
                                ELSE IF cell.isEnd THEN END ELSE PATH)
                          ELSE cell.type]

\* works on a clone: returns the new heap and the cloned, reset MazeData
resetMazeVisitation(hp, m) ==
    LET cl == cloneMazeData(hp, m)
        rowIds == { cl.maze.grid[row] : row \in DOMAIN cl.maze.grid }
    IN  [heap |-> [id \in DOMAIN cl.heap |->
                     IF id \in rowIds
                     THEN [col \in DOMAIN cl.heap[id] |-> ResetCell(cl.heap[id][col])]
                     ELSE cl.heap[id]],
         maze |-> cl.maze]

----------------------------------------------------------------------------
----------------------------------------------------------------------------
(* findMultiplePaths -- mazeUtils.ts 423-555 *)

\* path.map(p => `${p.row},${p.col}`) as a Set
CellSet(path) == { path[i] : i \in 1..Len(path) }

\* pathSimilarity: common cells over the size of the larger set, kept as the
\* pair of the two numbers
pathSimilarity(path1, path2) ==
    [common |-> Cardinality(CellSet(path1) \cap CellSet(path2)),
     larger |-> Max(Cardinality(CellSet(path1)), Cardinality(CellSet(path2)))]

\* mutant: no path counts as similar to another
TooSimilar_Never(sim) == sim.common > sim.larger

\* similarity > 0.7
TooSimilar(sim) == sim.common * 10 > sim.larger * 7

\* countTurns: the inner cells at which the direction changes
countTurns(path) ==
    Cardinality({ i \in 2..(Len(path) - 1) :
        \/ path[i].col - path[i - 1].col # path[i + 1].col - path[i].col
        \/ path[i].row - path[i - 1].row # path[i + 1].row - path[i].row })

\* the comparator of the final sort, as "a goes before b or ties with it"
NotAfter(a, b) ==
    IF Len(a) # Len(b) THEN Len(a) < Len(b) ELSE countTurns(a) <= countTurns(b)

\* inserts path p behind the last entry of the sorted list that is not after it
InsertSorted(sorted, p) ==
    LET before == { i \in 0..Len(sorted) : \A j \in 1..i : NotAfter(sorted[j], p) }
        k == CHOOSE i \in before : \A j \in before : j <= i
    IN  SubSeq(sorted, 1, k) \o << p >> \o SubSeq(sorted, k + 1, Len(sorted))

\* paths.sort(...): a stable sort
RECURSIVE SortPaths(_, _, _)
SortPaths(ps, k, sorted) ==
    IF k > Len(ps) THEN sorted
    ELSE SortPaths(ps, k + 1, InsertSorted(sorted, ps[k]))

\* the search order at a cell, which depends on the length of the path
ShuffledDirections(current, length) ==
    LET d == Directions(current)
    IN  IF length % 4 = 0 THEN << d[4], d[3], d[2], d[1] >>
        ELSE IF length % 3 = 0 THEN << d[4], d[2], d[3], d[1] >>
        ELSE IF length % 2 = 0 THEN << d[1], d[3], d[2], d[4] >>
        ELSE d

\* a call dfs(current, path) up to its loop over the directions: st is the
\* state of the findMultiplePaths call [phase, maxPaths, list, visited, stack];
\* the call returns at once, or records a path, or gets a frame on the stack
dfsEnter(endP, st, current, path) ==
    IF Len(st.list) >= st.maxPaths \/ current \in st.visited THEN st
    ELSE IF current = endP
    THEN [st EXCEPT !.list = Append(@, Append(path, current))]
    ELSE [st EXCEPT !.visited = @ \cup {current},
                    !.stack = Append(@, [current |-> current,
                                         path |-> Append(path, current),
                                         ds |-> ShuffledDirections(current, Len(path) + 1),
                                         k |-> 1])]

\* dfsLoop with the range test alone in place of isValidPosition: the search
\* walks through WALL cells
dfsLoop_ThroughWalls(hp, g, endP, st) ==
    LET top == st.stack[Len(st.stack)]
    IN  IF top.k > Len(top.ds)
        THEN [st EXCEPT !.visited = @ \ {top.current},
                        !.stack = SubSeq(@, 1, Len(@) - 1)]
        ELSE LET next == top.ds[top.k]
                 st1 == [st EXCEPT !.stack[Len(st.stack)].k = top.k + 1]
             IN  IF InRange(hp, g, next) /\ next \notin st.visited
                 THEN dfsEnter(endP, st1, next, top.path)
                 ELSE st1

\* one iteration of the loop over the directions in the innermost dfs call,
\* or its "Backtrack" and return when the loop is over
dfsLoop(hp, g, endP, st) ==
    LET top == st.stack[Len(st.stack)]
    IN  IF top.k > Len(top.ds)
        THEN [st EXCEPT !.visited = @ \ {top.current},
                        !.stack = SubSeq(@, 1, Len(@) - 1)]
        ELSE LET next == top.ds[top.k]
                 st1 == [st EXCEPT !.stack[Len(st.stack)].k = top.k + 1]
             IN  IF isValidPosition(hp, g, next) /\ next \notin st.visited
                 THEN dfsEnter(endP, st1, next, top.path)
                 ELSE st1

\* the breadth-first second attempt: queue of [pos, path]
RECURSIVE pathsBfs(_, _, _, _, _, _, _)
pathsBfs(hp, g, endP, maxPaths, queue, bfsVisited, ps) ==
    IF queue = << >> \/ Len(ps) >= maxPaths THEN ps
    ELSE LET item == Head(queue)
         IN  IF item.pos = endP
             THEN pathsBfs(hp, g, endP, maxPaths, Tail(queue), bfsVisited,
                      IF \E i \in 1..Len(ps) : TooSimilar(pathSimilarity(ps[i], item.path))
                      THEN ps ELSE Append(ps, item.path))
             ELSE LET Fresh(d) == isValidPosition(hp, g, d) /\ d \notin bfsVisited
                      found == SelectSeq(Directions(item.pos), Fresh)
                  IN  pathsBfs(hp, g, endP, maxPaths,
                          Tail(queue) \o [i \in 1..Len(found) |->
                                            [pos |-> found[i],
                                             path |-> Append(item.path, found[i])]],
                          bfsVisited \cup CellSet(found), ps)

\* the cells the second attempt reads: isValidPosition(grid, next) reads the
\* cell of every direction of a dequeued position that passes its range test
RECURSIVE pathsBfsReads(_, _, _, _, _, _, _)
pathsBfsReads(hp, g, endP, maxPaths, queue, bfsVisited, ps) ==
    IF queue = << >> \/ Len(ps) >= maxPaths THEN {}
    ELSE LET item == Head(queue)
         IN  IF item.pos = endP
             THEN pathsBfsReads(hp, g, endP, maxPaths, Tail(queue), bfsVisited,
                      IF \E i \in 1..Len(ps) : TooSimilar(pathSimilarity(ps[i], item.path))
                      THEN ps ELSE Append(ps, item.path))
             ELSE LET Fresh(d) == isValidPosition(hp, g, d) /\ d \notin bfsVisited
                      found == SelectSeq(Directions(item.pos), Fresh)
                  IN  { d \in CellSet(Directions(item.pos)) : InRange(hp, g, d) }
                         \cup pathsBfsReads(hp, g, endP, maxPaths,
                                  Tail(queue) \o [i \in 1..Len(found) |->
                                                    [pos |-> found[i],
                                                     path |-> Append(item.path, found[i])]],
                                  bfsVisited \cup CellSet(found), ps)

\* the rest of findMultiplePaths once dfs(start, []) has returned: the
\* second attempt when fewer than two paths were found, and the sort
afterDfs(hp, g, start, endP, maxPaths, first) ==
    LET all == IF Len(first) < 2 /\ GridHeight(g) > 5 /\ GridWidth(hp, g) > 5
               THEN pathsBfs(hp, g, endP, maxPaths,
                             << [pos |-> start, path |-> << start >>] >>,
                             {start}, first)
               ELSE first
    IN  SortPaths(all, 1, << >>)

----------------------------------------------------------------------------
(* The calls a caller of the algorithms makes: an instance is created on  *)
(* a clone of the maze, next() is called on it, the maze it worked on is   *)
(* reset, the instance is dropped.                                         *)

Algorithms == {"bfs", "dfs", "astar", "dijkstra"}

\* the algorithm constructor selected by name (the switch of handleStart)
CreateAlgorithm(name, hp, m) ==
    CASE name = "bfs" -> bfs(hp, m)
      [] name = "dfs" -> dfs(hp, m)
      [] name = "astar" -> astar(hp, m)
      [] name = "dijkstra" -> dijkstra(hp, m)

\* algorithmRef.current.next()
CallNext(hp, a) ==
    CASE a.name = "bfs" -> bfsNext(hp, a)
      [] a.name = "dfs" -> dfsNext(hp, a)
      [] a.name = "astar" -> astarNext(hp, a)
      [] a.name = "dijkstra" -> dijkstraNext(hp, a)

\* the MazeData the instance was created on (the clone of handleStart)
InstanceMaze(a, m) == [m EXCEPT !.grid = a.grid]

\* the row ids of mazeData are the last ones allocated by generation
LastRowOf(m) == m.grid[GridHeight(m.grid) - 1]

----------------------------------------------------------------------------
(* generateMaze as a state machine *)

\* the sizes generateMaze is called with: every width and height from 2 up
GenSizes == (2..MaxWidth) \X (2..MaxHeight)

\* r and c outside the approach-corridor block (block-scoped locals)
NoWalk == Pos(0, 0)

NoMaze == [grid |-> << >>, startPosition |-> Pos(0, 0), endPosition |-> Pos(0, 0),
           width |-> 0, height |-> 0]

\* findMultiplePaths has not been called
NoPaths ==
    [phase |-> "idle", start |-> Pos(0, 0), maxPaths |-> 0,
     list |-> << >>, visited |-> {}, stack |-> << >>]

\* animationRef.current = null
NoFrame == 0

\* animationRef.current holds the id of a frame that has fired: the browser
\* gives that id to no later frame, so the reference names no pending frame
StaleFrame == -1

NoStats == [visitedCount |-> 0, pathLength |-> 0]

\* MazeExplorer after its first render: nothing runs, nothing is pending
InitDriverVars ==
    /\ isRunning = FALSE
    /\ isDone = FALSE
    /\ algorithm = "astar"
    /\ speed = 30
    /\ stats = NoStats
    /\ animationRef = NoFrame
    /\ callbacks = {}

InitGen ==
    /\ \E s \in GenSizes : width = s[1] /\ height = s[2]
    /\ heap = << >>
    /\ mazeData = NoMaze
    /\ pc = "call"
    /\ stack = << >>
    /\ loopI = 0
    /\ walk = NoWalk
    /\ repaired = FALSE
    /\ alg = NoAlg
    /\ ret = NoRet
    /\ resetData = NoMaze
    /\ paths = NoPaths
    /\ InitDriverVars

\* lines 85-113 and the entry of carvePath(startPosition)
GenBegin ==
    /\ pc = "call"
    /\ \E k \in 1..Len(filteredPositions(width, height, Pos(0, 0))) :
        LET em == createEmptyMaze(heap, width, height)
            endPosition == filteredPositions(width, height, em.maze.startPosition)[k]
            hp1 == [em.heap EXCEPT ![em.maze.grid[endPosition.row]][endPosition.col] =
                        NewCell(END, FALSE, TRUE,
                                PositionObject(em.maze.grid[endPosition.row],
                                               endPosition.row, endPosition.col))]
            m == [em.maze EXCEPT !.endPosition = endPosition]
            en == CarveEnter(hp1, m, m.startPosition)
        IN  /\ heap' = en.heap
            /\ mazeData' = m
            /\ stack' = << en.frame >>
    /\ pc' = "carve"
    /\ UNCHANGED <<width, height, loopI, walk, repaired, algVars>>
    /\ UNCHANGED <<paths, driverVars>>

\* one iteration of the for loop of the innermost active carvePath
CarveNeighbor ==
    /\ pc = "carve"
    /\ stack # << >>
    /\ LET top == stack[Len(stack)]
       IN  /\ top.neighbors # {}
           /\ \E n \in top.neighbors :
                LET rest == [stack EXCEPT ![Len(stack)].neighbors = top.neighbors \ {n}]
                IN  IF CellAt(heap, mazeData.grid, n).type = WALL
                    THEN LET mid == Pos(top.position.row + (n.row - top.position.row) \div 2,
                                        top.position.col + (n.col - top.position.col) \div 2)
                             hp1 == SetType(heap, mazeData.grid, mid, PATH)
                             en == CarveEnter(hp1, mazeData, n)
                         IN  /\ heap' = en.heap
                             /\ stack' = Append(rest, en.frame)
                    ELSE /\ heap' = heap
                         /\ stack' = rest
    /\ UNCHANGED <<width, height, mazeData, pc, loopI, walk, repaired, algVars>>
    /\ UNCHANGED <<paths, driverVars>>

\* the innermost carvePath returns; after the outermost, line 173
CarveReturn ==
    /\ pc = "carve"
    /\ stack # << >>
    /\ stack[Len(stack)].neighbors = {}
    /\ stack' = SubSeq(stack, 1, Len(stack) - 1)
    /\ IF Len(stack) = 1
       THEN /\ heap' = SetType(heap, mazeData.grid, mazeData.endPosition, END)
            /\ pc' = "openings"
            /\ loopI' = 0
       ELSE UNCHANGED <<heap, pc, loopI>>
    /\ UNCHANGED <<width, height, mazeData, walk, repaired, algVars>>
    /\ UNCHANGED <<paths, driverVars>>

\* one iteration of the extra-openings loop (lines 178-204)
ExtraOpening ==
    /\ pc = "openings"
    /\ loopI < additionalPaths(width, height)
    /\ \E row \in InteriorIndexes(height), col \in InteriorIndexes(width) :
        heap' = IF /\ TypeIs(heap, mazeData.grid, row, col, WALL)
                   /\ ConnectsPaths(heap, mazeData, row, col)
                THEN SetType(heap, mazeData.grid, Pos(row, col), PATH)
                ELSE heap
    /\ loopI' = loopI + 1
    /\ UNCHANGED <<width, height, mazeData, pc, stack, walk, repaired, algVars>>
    /\ UNCHANGED <<paths, driverVars>>

ExtraOpeningsDone ==
    /\ pc = "openings"
    /\ loopI >= additionalPaths(width, height)
    /\ pc' = "approach"
    /\ loopI' = 0
    /\ UNCHANGED <<heap, width, height, mazeData, stack, walk, repaired, algVars>>
    /\ UNCHANGED <<paths, driverVars>>

\* lines 211-219: pick a cell near the end; walk from it if it is a PATH
ApproachPick ==
    /\ pc = "approach"
    /\ loopI < 3
    /\ \E rRow \in NearEndIndexes(mazeData.endPosition.row, height),
          rCol \in NearEndIndexes(mazeData.endPosition.col, width) :
        IF TypeIs(heap, mazeData.grid, rRow, rCol, PATH)
           /\ Pos(rRow, rCol) # mazeData.endPosition
        THEN /\ walk' = Pos(rRow, rCol)
             /\ pc' = "walk"
             /\ loopI' = loopI
        ELSE /\ walk' = walk
             /\ pc' = pc
             /\ loopI' = loopI + 1
    /\ UNCHANGED <<heap, width, height, mazeData, stack, repaired, algVars>>
    /\ UNCHANGED <<paths, driverVars>>

\* mutant: a row move always goes down, a column move always goes right
ApproachStep_OneWay ==
    /\ pc = "walk"
    /\ LET endRow == mazeData.endPosition.row
           endCol == mazeData.endPosition.col
       IN \E rowMove \in BOOLEAN :
            LET r == IF rowMove
                     THEN walk.row + 1
                     ELSE walk.row
                c == IF rowMove THEN walk.col
                     ELSE walk.col + 1
            IN  /\ heap' = IF /\ InBounds(height, width, Pos(r, c))
                              /\ ~CellAt(heap, mazeData.grid, Pos(r, c)).isStart
                           THEN SetType(heap, mazeData.grid, Pos(r, c), PATH)
                           ELSE heap
                /\ IF r = endRow /\ c = endCol
                   THEN pc' = "approach" /\ loopI' = loopI + 1 /\ walk' = NoWalk
                   ELSE pc' = pc /\ loopI' = loopI /\ walk' = Pos(r, c)
    /\ UNCHANGED <<width, height, mazeData, stack, repaired, algVars>>
    /\ UNCHANGED <<paths, driverVars>>

\* one iteration of the while loop of lines 222-232
ApproachStep ==
    /\ pc = "walk"
    /\ LET endRow == mazeData.endPosition.row
           endCol == mazeData.endPosition.col
       IN \E rowMove \in BOOLEAN :
            LET r == IF rowMove
                     THEN (IF walk.row < endRow THEN walk.row + 1
                           ELSE IF walk.row > endRow THEN walk.row - 1 ELSE walk.row)
                     ELSE walk.row
                c == IF rowMove THEN walk.col
                     ELSE (IF walk.col < endCol THEN walk.col + 1
                           ELSE IF walk.col > endCol THEN walk.col - 1 ELSE walk.col)
            IN  /\ heap' = IF /\ InBounds(height, width, Pos(r, c))
                              /\ ~CellAt(heap, mazeData.grid, Pos(r, c)).isStart
                           THEN SetType(heap, mazeData.grid, Pos(r, c), PATH)
                           ELSE heap
                /\ IF r = endRow /\ c = endCol
                   THEN pc' = "approach" /\ loopI' = loopI + 1 /\ walk' = NoWalk
                   ELSE pc' = pc /\ loopI' = loopI /\ walk' = Pos(r, c)
    /\ UNCHANGED <<width, height, mazeData, stack, repaired, algVars>>
    /\ UNCHANGED <<paths, driverVars>>

\* lines 236-263: the adjacency guarantee
Adjacency ==
    /\ pc = "approach"
    /\ loopI >= 3
    /\ IF ~hasAdjacentPath(heap, mazeData) /\ Len(validAdjacents(mazeData)) > 0
       THEN \E k \in 1..Len(validAdjacents(mazeData)) :
                heap' = SetType(heap, mazeData.grid, validAdjacents(mazeData)[k], PATH)
       ELSE heap' = heap
    /\ pc' = "ensure"
    /\ UNCHANGED <<width, height, mazeData, stack, loopI, walk, repaired, algVars>>
    /\ UNCHANGED <<paths, driverVars>>

\* line 266: return ensurePathExists(mazeData)
GenReturn ==
    /\ pc = "ensure"
    /\ LET res == ensurePathExists(heap, mazeData)
       IN  /\ heap' = res.heap
           /\ mazeData' = res.maze
           /\ repaired' = res.repaired
    /\ pc' = "done"
    /\ UNCHANGED <<width, height, stack, loopI, walk, algVars>>
    /\ UNCHANGED <<paths, driverVars>>

NextGen ==
    \/ GenBegin
    \/ CarveNeighbor
    \/ CarveReturn
    \/ ExtraOpening
    \/ ExtraOpeningsDone
    \/ ApproachPick
    \/ ApproachStep
    \/ Adjacency
    \/ GenReturn

SpecGen == InitGen /\ [][NextGen]_vars

----------------------------------------------------------------------------
(* The library driven by any caller: the calls bfs(maze), dfs(maze),       *)
(* astar(maze), dijkstra(maze), next() and resetMazeVisitation(maze) as    *)
(* actions. The caller holds the maze (mazeData), one instance (alg), the   *)
(* last result of next() (ret) and the last result of resetMazeVisitation   *)
(* (resetData); it keeps mazeData as it is. What MazeExplorer does around   *)
(* these calls is Start, FrameFires and Reset further down.                 *)

\* a call of one of the four constructors on a clone of the maze, as
\* handleStart makes it; an earlier reset maze is dropped
AlgCreate ==
    /\ pc = "done"
    /\ alg.name = "none"
    /\ \E name \in Algorithms :
        LET cl == cloneMazeData(SubSeq(heap, 1, LastRowOf(mazeData)), mazeData)
            res == CreateAlgorithm(name, cl.heap, cl.maze)
        IN  /\ heap' = res.heap
            /\ alg' = res.alg
    /\ ret' = NoRet
    /\ resetData' = NoMaze
    /\ UNCHANGED <<mazeData, genVars>>
    /\ UNCHANGED <<paths, driverVars>>

\* one call of next() on the instance
AlgNext ==
    /\ alg.name # "none"
    /\ \E res \in {CallNext(heap, alg)} :
           /\ heap' = res.heap
           /\ alg' = res.alg
           /\ ret' = res.ret
    /\ UNCHANGED <<mazeData, genVars, resetData>>
    /\ UNCHANGED <<paths, driverVars>>

\* a call of resetMazeVisitation on the maze the instance has worked on (the
\* grid handleReset finds in mazeData after a step); the caller drops the
\* instance and with it all it allocated, so the heap holds the rows of
\* mazeData and of the reset maze
AlgReset ==
    /\ alg.name # "none"
    /\ LET rs == resetMazeVisitation(heap, InstanceMaze(alg, mazeData))
           keep == LastRowOf(mazeData)
           h == GridHeight(rs.maze.grid)
       IN  /\ heap' = SubSeq(heap, 1, keep)
                        \o [k \in 1..h |-> rs.heap[rs.maze.grid[k - 1]]]
           /\ resetData' = [rs.maze EXCEPT !.grid = [row \in 0..(h - 1) |-> keep + row + 1]]
    /\ alg' = NoAlg
    /\ ret' = NoRet
    /\ UNCHANGED <<mazeData, genVars>>
    /\ UNCHANGED <<paths, driverVars>>

NextAlg ==
    \/ AlgCreate
    \/ AlgNext
    \/ AlgReset

----------------------------------------------------------------------------
(* Clean mazes the algorithms are run on *)

\* largest width and height of the mazes the algorithms are run on
MaxAlgWidth == 3
MaxAlgHeight == 3
\* largest number of WALL cells in them
MaxWalls == 2

RECURSIVE SubsetsUpTo(_, _)
SubsetsUpTo(S, k) ==
    IF k = 0 \/ S = {} THEN {{}}
    ELSE LET x == CHOOSE y \in S : TRUE
         IN  SubsetsUpTo(S \ {x}, k)
                \cup { T \cup {x} : T \in SubsetsUpTo(S \ {x}, k - 1) }

\* a clean w x h maze: start (0,0), end endP, WALL exactly on `walls`
CleanRow(w, row, endP, walls) ==
    [col \in 0..(w - 1) |->
        LET position == PositionObject(row + 1, row, col)
        IN  IF row = 0 /\ col = 0 THEN NewCell(START, TRUE, FALSE, position)
            ELSE IF Pos(row, col) = endP THEN NewCell(END, FALSE, TRUE, position)
            ELSE IF Pos(row, col) \in walls THEN NewCell(WALL, FALSE, FALSE, position)
            ELSE NewCell(PATH, FALSE, FALSE, position)]

CleanHeap(w, h, endP, walls) == [k \in 1..h |-> CleanRow(w, k - 1, endP, walls)]

CleanMaze(w, h, endP) ==
    [grid |-> [row \in 0..(h - 1) |-> row + 1],
     startPosition |-> Pos(0, 0), endPosition |-> endP,
     width |-> w, height |-> h]

FreeCells(w, h, endP) ==
    { Pos(row, col) : row \in 0..(h - 1), col \in 0..(w - 1) } \ {Pos(0, 0), endP}

\* the 5x5 example: rows 1-3 open except a WALL at (2,2); rows 0 and 4 are
\* either walls or open
ExampleWalls ==
    { {Pos(2, 2)} \cup top \cup bottom :
        top \in { {}, { Pos(0, col) : col \in 1..4 } },
        bottom \in { {}, { Pos(4, col) : col \in 0..3 } } }

InitAlgVars ==
    /\ pc = "done"
    /\ stack = << >>
    /\ loopI = 0
    /\ walk = NoWalk
    /\ repaired = FALSE
    /\ alg = NoAlg
    /\ ret = NoRet
    /\ resetData = NoMaze
    /\ paths = NoPaths
    /\ InitDriverVars

\* the clean mazes: every placement of up to MaxWalls walls in the small
\* sizes, and the 5x5 example
InitCleanMaze ==
    \/ \E w \in 2..MaxAlgWidth, h \in 2..MaxAlgHeight :
         \E k \in 1..3 :
            LET endP == potentialEndPositions(w, h)[k]
            IN  \E walls \in SubsetsUpTo(FreeCells(w, h, endP), MaxWalls) :
                  /\ width = w
                  /\ height = h
                  /\ heap = CleanHeap(w, h, endP, walls)
                  /\ mazeData = CleanMaze(w, h, endP)
    \/ \E walls \in ExampleWalls :
         /\ width = 5
         /\ height = 5
         /\ heap = CleanHeap(5, 5, Pos(4, 4), walls)
         /\ mazeData = CleanMaze(5, 5, Pos(4, 4))

InitAlg ==
    /\ InitCleanMaze
    /\ InitAlgVars

\* a clean maze handed to ensurePathExists
InitEnsure ==
    /\ InitCleanMaze
    /\ pc = "ensure"
    /\ stack = << >>
    /\ loopI = 0
    /\ walk = NoWalk
    /\ repaired = FALSE
    /\ alg = NoAlg
    /\ ret = NoRet
    /\ resetData = NoMaze
    /\ paths = NoPaths
    /\ InitDriverVars

SpecAlg == InitAlg /\ [][NextAlg]_vars

\* one instance whose caller keeps calling next()
NextLive ==
    \/ AlgCreate
    \/ AlgNext

SpecAlgLive ==
    InitAlg /\ [][NextLive]_vars /\ WF_vars(AlgCreate) /\ WF_vars(AlgNext)

\* ensurePathExists on the clean mazes
SpecEnsure == InitEnsure /\ [][GenReturn]_vars

\* generation followed by runs of the algorithms on the generated maze
SpecGenAlg == InitGen /\ [][NextGen \/ NextAlg]_vars

----------------------------------------------------------------------------
(* findMultiplePaths called on a maze *)

MaxPaths == 3

\* a 6x6 maze whose only open cells are row 0 and column 5
CorridorWalls == { Pos(row, col) : row \in 1..5, col \in 0..4 }

\* the clean mazes, the 7x7 grid without walls and the 6x6 corridor
InitPaths ==
    /\ \/ InitCleanMaze
       \/ /\ width = 7
          /\ height = 7
          /\ heap = CleanHeap(7, 7, Pos(6, 6), {})
          /\ mazeData = CleanMaze(7, 7, Pos(6, 6))
       \/ /\ width = 6
          /\ height = 6
          /\ heap = CleanHeap(6, 6, Pos(5, 5), CorridorWalls)
          /\ mazeData = CleanMaze(6, 6, Pos(5, 5))
    /\ pc = "paths"
    /\ stack = << >>
    /\ loopI = 0
    /\ walk = NoWalk
    /\ repaired = FALSE
    /\ alg = NoAlg
    /\ ret = NoRet
    /\ resetData = NoMaze
    /\ paths = NoPaths
    /\ InitDriverVars

\* findMultiplePaths(grid, start, endPosition, maxPaths) is called with any
\* cell of the grid as start and any maxPaths >= 0: dfs(start, [])
FindPathsCall ==
    /\ pc = "paths"
    /\ paths.phase = "idle"
    /\ \E maxPaths \in 0..MaxPaths, start \in AllPositions(heap, mazeData.grid) :
          paths' = dfsEnter(mazeData.endPosition,
                            [paths EXCEPT !.phase = "dfs", !.start = start,
                                          !.maxPaths = maxPaths],
                            start, << >>)
    /\ UNCHANGED <<heap, mazeData, genVars, algVars, driverVars>>

\* the depth-first search goes on
FindPathsDfs ==
    /\ paths.phase = "dfs"
    /\ paths.stack # << >>
    /\ paths' = dfsLoop(heap, mazeData.grid, mazeData.endPosition, paths)
    /\ UNCHANGED <<heap, mazeData, genVars, algVars, driverVars>>

\* dfs(start, []) has returned: second attempt, sort, return
FindPathsReturn ==
    /\ paths.phase = "dfs"
    /\ paths.stack = << >>
    /\ paths' = [paths EXCEPT
                    !.phase = "done",
                    !.visited = {},
                    !.list = afterDfs(heap, mazeData.grid, paths.start,
                                      mazeData.endPosition, paths.maxPaths, paths.list)]
    /\ UNCHANGED <<heap, mazeData, genVars, algVars, driverVars>>

NextPaths ==
    \/ FindPathsCall
    \/ FindPathsDfs
    \/ FindPathsReturn

SpecPaths == InitPaths /\ [][NextPaths]_vars

----------------------------------------------------------------------------
(* Reachability over non-WALL cells, independent of the code's searches *)

Adjacent(p, q) ==
    \/ p.row = q.row /\ (p.col = q.col + 1 \/ q.col = p.col + 1)
    \/ p.col = q.col /\ (p.row = q.row + 1 \/ q.row = p.row + 1)

Walkable(hp, g) == { p \in AllPositions(hp, g) : CellAt(hp, g, p).type # WALL }

\* the cells of W reachable from the set S by orthogonal steps inside W
RECURSIVE ReachableFrom(_, _)
ReachableFrom(S, W) ==
    LET N == S \cup { q \in W : \E p \in S : Adjacent(p, q) }
    IN  IF N = S THEN S ELSE ReachableFrom(N, W)

\* a path of orthogonally adjacent non-WALL cells from start to end
Connected(hp, m) ==
    /\ m.startPosition \in Walkable(hp, m.grid)
    /\ m.endPosition \in ReachableFrom({m.startPosition}, Walkable(hp, m.grid))

IsOdd(n) == n % 2 = 1

\* the positions of the cells of grid g whose flag (isStart or isEnd) is set
Flagged(hp, g, flag) == { p \in AllPositions(hp, g) : CellAt(hp, g, p)[flag] }

----------------------------------------------------------------------------
(* Claims about generateMaze *)

\* C1: for every width, height >= 2 and every random outcome, the maze
\* generateMaze returns has a path of orthogonally adjacent non-WALL cells
\* from startPosition to endPosition.
C1_ReturnedMazeConnected ==
    pc = "done" => Connected(heap, mazeData)

\* generateMaze has returned a maze that needed the repair
C1_Witness == pc = "done" /\ repaired /\ alg.name = "none"

\* C2: for odd width and height, both >= 5, the grid handed to
\* ensurePathExists already has the end reachable: its search succeeds and
\* createPathToEnd is never invoked.
C2_NoRepairOnOddSizes ==
    (IsOdd(width) /\ IsOdd(height) /\ width >= 5 /\ height >= 5)
        => /\ pc = "ensure" => PathExists(heap, mazeData)
           /\ pc = "done" => ~repaired

\* a 5x5 maze has been returned without repair
C2_Witness ==
    pc = "done" /\ width = 5 /\ height = 5 /\ ~repaired /\ alg.name = "none"

\* C3: the returned maze has startPosition (0,0), endPosition one of the three
\* other corners, and these are the positions of the one cell flagged isStart
\* and the one cell flagged isEnd.
C3_StartEndPositions ==
    pc = "done" =>
        /\ mazeData.startPosition = Pos(0, 0)
        /\ mazeData.endPosition \in { Pos(0, width - 1), Pos(height - 1, 0),
                                      Pos(height - 1, width - 1) }
        /\ Flagged(heap, mazeData.grid, "isStart") = {mazeData.startPosition}
        /\ Flagged(heap, mazeData.grid, "isEnd") = {mazeData.endPosition}

\* a maze has been returned whose end is the bottom-left corner
C3_Witness ==
    pc = "done" /\ mazeData.endPosition = Pos(height - 1, 0) /\ height >= 3
        /\ alg.name = "none"

----------------------------------------------------------------------------
(* Claims about the step algorithms *)

\* the grids a state holds: the generated maze, the grid of the instance,
\* the reset maze
GridsInState ==
    {mazeData.grid}
        \cup (IF alg.name # "none" THEN {alg.grid} ELSE {})
        \cup (IF resetData.height # 0 THEN {resetData.grid} ELSE {})

OneStartOneEnd(hp, g) ==
    /\ Cardinality(Flagged(hp, g, "isStart")) = 1
    /\ Cardinality(Flagged(hp, g, "isEnd")) = 1
    /\ Flagged(hp, g, "isStart") # Flagged(hp, g, "isEnd")
    /\ \A p \in Flagged(hp, g, "isStart") \cup Flagged(hp, g, "isEnd") :
            CellAt(hp, g, p).type # WALL

\* C4: in every maze returned by generateMaze (sizes >= 5), in that maze
\* after any number of next() calls of any of the four algorithms, and after
\* resetMazeVisitation, exactly one cell has isStart, exactly one has isEnd,
\* they differ, and neither is a WALL.
C4_OneStartOneEnd ==
    (pc = "done" /\ width >= 5 /\ height >= 5)
        => \A g \in GridsInState : OneStartOneEnd(heap, g)

\* an algorithm has found the end of a generated 5x5 maze
C4_Witness ==
    /\ pc = "done" /\ width >= 5 /\ height >= 5
    /\ alg.name # "none" /\ ret.kind = "step" /\ ret.success

\* the number of steps of a shortest orthogonal path from the cells S to the
\* target inside W, counted level by level; Undefined when there is none
RECURSIVE LevelDistance(_, _, _, _)
LevelDistance(S, W, target, d) ==
    IF target \in S THEN d
    ELSE LET N == S \cup { q \in W : \E p \in S : Adjacent(p, q) }
         IN  IF N = S THEN Undefined ELSE LevelDistance(N, W, target, d + 1)

\* on the clean maze m
ShortestDistance(hp, m) ==
    LevelDistance({m.startPosition}, Walkable(hp, m.grid), m.endPosition, 0)

SuccessStep(name) ==
    alg.name = name /\ ret.kind = "step" /\ ret.isDone /\ ret.success

IsExampleMaze ==
    /\ width = 5 /\ height = 5 /\ mazeData.endPosition = Pos(4, 4)
    /\ \A p \in AllPositions(heap, mazeData.grid) :
          p.row \in 1..3 => (CellAt(heap, mazeData.grid, p).type = WALL <=> p = Pos(2, 2))

\* C5: on a clean maze whose end is reachable, the success step of bfs reports
\* pathLength = shortest distance + 1; on the 5x5 example (rows 1-3 open
\* except a WALL at (2,2), end (4,4)) pathLength = 9 and visitedCount <= 25.
C5_BfsShortest ==
    SuccessStep("bfs") =>
        /\ ret.pathLength = ShortestDistance(heap, mazeData) + 1
        /\ IsExampleMaze => (ret.pathLength = 9 /\ ret.visitedCount <= 25)

\* bfs has finished on the 5x5 example
C5_Witness == SuccessStep("bfs") /\ IsExampleMaze

\* the last value next() returns before null, when the algorithm `name` is
\* run to completion on its own clone of the maze m
RECURSIVE RunToEnd(_, _, _)
RunToEnd(hp, a, last) ==
    LET res == CallNext(hp, a)
    IN  IF res.ret.kind = "null" THEN last
        ELSE IF res.ret.isDone THEN res.ret
        ELSE RunToEnd(res.heap, res.alg, res.ret)

FinalStep(name, hp, m) ==
    LET cl == cloneMazeData(hp, m)
        res == CreateAlgorithm(name, cl.heap, cl.maze)
    IN  RunToEnd(res.heap, res.alg, NoRet)

\* C6: on every clean maze with a reachable end, bfs and dijkstra, each run
\* to completion on its own copy, report the same pathLength on success.
C6_BfsDijkstraSameLength ==
    /\ SuccessStep("dijkstra") =>
          LET other == FinalStep("bfs", SubSeq(heap, 1, LastRowOf(mazeData)), mazeData)
          IN  other.kind = "step" /\ other.success
                /\ other.pathLength = ret.pathLength
    /\ SuccessStep("bfs") =>
          LET other == FinalStep("dijkstra", SubSeq(heap, 1, LastRowOf(mazeData)), mazeData)
          IN  other.kind = "step" /\ other.success
                /\ other.pathLength = ret.pathLength

\* dijkstra has found the end by a path longer than the Manhattan distance
C6_Witness ==
    /\ SuccessStep("dijkstra")
    /\ ret.pathLength > manhattanDistance(mazeData.startPosition, mazeData.endPosition) + 1

\* next() has told its caller that the run is over
DoneObserved == (ret.kind = "step" /\ ret.isDone) \/ ret.kind = "null"

\* C7: once an instance is done (it returned a step with isDone, or null),
\* every later next() returns null and changes neither the grid nor the
\* values of isDone() and success().
C7_NextAfterDone ==
    [][ (alg.name # "none" /\ DoneObserved /\ alg'.name # "none")
            => /\ ret' = Null
               /\ heap' = heap
               /\ alg'.isDone = alg.isDone
               /\ alg'.success = alg.success ]_vars

\* null was returned by a call made after the success step
C7_Witness == alg.name # "none" /\ alg.success /\ ret.kind = "null"

\* C8 (as claimed): when the end is not reachable, the exhaustion of the
\* frontier is reported by a final step with isDone = true and success =
\* false, before any null is returned: the call before the first null
\* returned that step.
C8_ExhaustionStep ==
    [][ (alg.name # "none" /\ alg'.name # "none"
            /\ ret.kind # "null" /\ ret'.kind = "null")
            => (ret.kind = "step" /\ ret.isDone) ]_vars

\* C9: for each algorithm on a clean maze: if the end is reachable, repeated
\* next() calls on an instance that is not done eventually return a step with isDone and success; if it is
\* not reachable, no step with success is ever returned.
C9_SearchOutcome ==
    /\ (alg.name # "none" /\ ~alg.isDone /\ Connected(heap, mazeData))
            ~> (ret.kind = "step" /\ ret.isDone /\ ret.success)
    /\ [](~Connected(heap, mazeData) => ~(ret.kind = "step" /\ ret.success))

\* dfs has found the end by a path that is not a shortest one
C9_Witness ==
    /\ SuccessStep("dfs")
    /\ ret.pathLength > ShortestDistance(heap, mazeData) + 1

\* C10 (as claimed): no later next() changes a cell of the grid that an
\* earlier call returned.
C10_StepGridIsSnapshot ==
    [][ (alg.name # "none" /\ alg'.name # "none" /\ ret.kind = "step")
            => \A row \in DOMAIN ret.grid :
                  heap'[ret.grid[row]] = heap[ret.grid[row]] ]_vars

----------------------------------------------------------------------------
(* Claims about the success step, the frontier, cloneMazeData and reset *)

\* the cells met by following parent from p, p first; the walk ends at a
\* cell without parent, or after `fuel` steps
RECURSIVE ParentChain(_, _, _, _)
ParentChain(hp, g, p, fuel) ==
    LET parent == CellAt(hp, g, p).parent
    IN  IF parent = NoParent \/ fuel = 0 THEN << p >>
        ELSE << p >> \o ParentChain(hp, g, parent, fuel - 1)

CellsOfType(hp, g, t) == { p \in AllPositions(hp, g) : CellAt(hp, g, p).type = t }

VisitedCells(hp, g) == { p \in AllPositions(hp, g) : CellAt(hp, g, p).visited }

\* C11: in the success step of any of the four algorithms on a clean maze,
\* following parent from the end reaches the start through orthogonally
\* adjacent non-WALL cells without repeating a cell; the cells strictly
\* between start and end on the chain are exactly the SOLUTION cells;
\* pathLength is the number of cells of the chain; visitedCount is the number
\* of cells with visited = true.
C11_SuccessStepPath ==
    (alg.name # "none" /\ ret.kind = "step" /\ ret.success) =>
        LET g == alg.grid
            chain == ParentChain(heap, g, alg.endPosition, width * height)
            n == Len(chain)
        IN  /\ chain[n] = alg.startPosition
            /\ \A i \in 1..(n - 1) : Adjacent(chain[i], chain[i + 1])
            /\ \A i \in 1..n : CellAt(heap, g, chain[i]).type # WALL
            /\ \A i, j \in 1..n : i # j => chain[i] # chain[j]
            /\ { chain[i] : i \in 2..(n - 1) } = CellsOfType(heap, g, SOLUTION)
            /\ ret.pathLength = n
            /\ ret.visitedCount = Cardinality(VisitedCells(heap, g))

\* astar has found the end by a path with cells between start and end, having
\* visited cells that are not on it
C11_Witness ==
    /\ SuccessStep("astar")
    /\ ret.pathLength >= 4
    /\ ret.visitedCount > ret.pathLength

\* the number of next() calls until the instance is done (a step with isDone
\* or null is returned), counting that call; the count stops at `limit`
RECURSIVE CallsUntilDone(_, _, _, _)
CallsUntilDone(hp, a, n, limit) ==
    IF n >= limit THEN limit
    ELSE CHOOSE c \in
           { IF res.ret.kind = "null" \/ res.ret.isDone THEN n + 1
             ELSE CallsUntilDone(res.heap, res.alg, n + 1, limit) :
             res \in {CallNext(hp, a)} } : TRUE

NonWallCount(hp, g) == Cardinality(Walkable(hp, g))

\* the frontier holds at most N cells, none twice, all of them visited
FrontierBounded ==
    alg.name # "none" =>
        /\ Len(alg.list) <= NonWallCount(heap, alg.grid)
        /\ \A i, j \in 1..Len(alg.list) : i # j => alg.list[i] # alg.list[j]
        /\ \A i \in 1..Len(alg.list) : CellAt(heap, alg.grid, alg.list[i]).visited

\* a new instance is done within N + 1 calls
DoneWithinBound ==
    (alg.name # "none" /\ ret.kind = "none") =>
        CallsUntilDone(heap, alg, 0, NonWallCount(heap, alg.grid) + 2)
            <= NonWallCount(heap, alg.grid) + 1

\* the call took exactly one cell from the frontier; the cells it added had
\* never been in it (visited was false), and the cell taken is not one of them
ExpandedOne ==
    \E i \in 1..Len(alg.list) :
        LET rest == Splice(alg.list, i)
            current == alg.list[i]
        IN  /\ Len(alg'.list) >= Len(rest)
            /\ SubSeq(alg'.list, 1, Len(rest)) = rest
            /\ \A k \in (Len(rest) + 1)..Len(alg'.list) :
                  /\ ~CellAt(heap, alg.grid, alg'.list[k]).visited
                  /\ alg'.list[k] # current
            /\ CellAt(heap', alg.grid, current).visited

\* C12: on a grid with N non-WALL cells, every next() that returns a
\* non-final step expands exactly one cell, no cell enters the frontier more
\* than once and none is expanded twice, the frontier never holds more than N
\* cells, and the instance is done within N + 1 calls.
C12_OneExpansionPerCall ==
    [][ /\ FrontierBounded /\ FrontierBounded'
        /\ DoneWithinBound /\ DoneWithinBound'
        /\ (alg.name # "none" /\ alg'.name # "none"
                /\ ret'.kind = "step" /\ ~ret'.isDone) => ExpandedOne ]_vars

\* dijkstra has returned a non-final step with three cells in its queue
C12_Witness ==
    /\ alg.name = "dijkstra"
    /\ ret.kind = "step" /\ ~ret.isDone
    /\ ret.visitedCount >= 2
    /\ Len(alg.list) >= 3

\* the mazes a state holds: the generated maze, the maze the instance works
\* on, the reset maze
MazesInState ==
    {mazeData}
        \cup (IF alg.name # "none" THEN {InstanceMaze(alg, mazeData)} ELSE {})
        \cup (IF resetData.height # 0 THEN {resetData} ELSE {})

\* maze m2 in heap hp2 equals maze m1 in heap hp1 in value
SameValue(hp1, m1, hp2, m2) ==
    /\ m2.width = m1.width /\ m2.height = m1.height
    /\ m2.startPosition = m1.startPosition /\ m2.endPosition = m1.endPosition
    /\ DOMAIN m2.grid = DOMAIN m1.grid
    /\ \A row \in DOMAIN m1.grid :
          /\ DOMAIN hp2[m2.grid[row]] = DOMAIN hp1[m1.grid[row]]
          /\ \A col \in DOMAIN hp1[m1.grid[row]] :
                LET c1 == hp1[m1.grid[row]][col]
                    c2 == hp2[m2.grid[row]][col]
                IN  /\ c2.type = c1.type
                    /\ c2.position.row = c1.position.row
                    /\ c2.position.col = c1.position.col
                    /\ c2.visited = c1.visited /\ c2.parent = c1.parent
                    /\ c2.isStart = c1.isStart /\ c2.isEnd = c1.isEnd
                    /\ c2.g = c1.g /\ c2.h = c1.h /\ c2.f = c1.f

\* C13: cloneMazeData(m) returns a maze equal to m in value (width, height,
\* startPosition, endPosition, and every field of every cell) and does not
\* modify m.
C13_CloneEqualInValue ==
    pc = "done" =>
        \A m \in MazesInState :
            LET cl == cloneMazeData(heap, m)
            IN  /\ SameValue(heap, m, cl.heap, cl.maze)
                /\ SubSeq(cl.heap, 1, Len(heap)) = heap

\* astar is running: cells of the maze it works on have parent, g, h and f set
C13_Witness ==
    /\ alg.name = "astar" /\ ret.kind = "step" /\ ~ret.isDone
    /\ \E p \in AllPositions(heap, alg.grid) :
          /\ CellAt(heap, alg.grid, p).parent # NoParent
          /\ CellAt(heap, alg.grid, p).f # Undefined
          /\ CellAt(heap, alg.grid, p).visited

\* the objects reachable from grid g: its row arrays, its cells, and the
\* Position objects its cells hold
ObjectsOf(hp, g) ==
    { << "row", g[row] >> : row \in DOMAIN g }
        \cup { << "cell", g[p.row], p.col >> : p \in AllPositions(hp, g) }
        \cup { << "position", CellAt(hp, g, p).position.id >> : p \in AllPositions(hp, g) }

\* C14 (as claimed): the result of cloneMazeData(m) shares no mutable object
\* with m (no row, no cell, no cell's position), so that no mutation made
\* through the clone is observable through m; here for the clone handleStart
\* makes of mazeData, on which the instance works.
C14_CloneSharesNothing ==
    (pc = "done" /\ alg.name # "none") =>
        ObjectsOf(heap, alg.grid) \cap ObjectsOf(heap, mazeData.grid) = {}

\* every cell of grid g is as before a search
Unsearched(hp, g) ==
    \A p \in AllPositions(hp, g) :
        LET cell == CellAt(hp, g, p)
        IN  /\ cell.type \in {WALL, PATH, START, END}
            /\ ~cell.visited
            /\ cell.parent = NoParent
            /\ cell.g = Undefined /\ cell.h = Undefined /\ cell.f = Undefined

\* C15: for the maze reached after any number of next() calls of any of the
\* four algorithms on a clean maze, resetMazeVisitation returns a grid whose
\* cells all have kind WALL, PATH, START or END, visited = false, and parent,
\* g, h and f undefined.
C15_ResetClearsSearch ==
    /\ alg.name # "none" =>
          LET rs == resetMazeVisitation(heap, InstanceMaze(alg, mazeData))
          IN  Unsearched(rs.heap, rs.maze.grid)
    /\ resetData.height # 0 => Unsearched(heap, resetData.grid)

\* dijkstra has found the end: the maze it worked on has SOLUTION, VISITED
\* cells and costs, among them the Infinity of cells never reached
C15_Witness ==
    /\ SuccessStep("dijkstra")
    /\ CellsOfType(heap, alg.grid, SOLUTION) # {}
    /\ CellsOfType(heap, alg.grid, VISITED) # {}
    /\ \E p \in AllPositions(heap, alg.grid) : CellAt(heap, alg.grid, p).g = Infinity

----------------------------------------------------------------------------
(* Claims about ensurePathExists *)

RowsOf(g) == { g[row] : row \in DOMAIN g }

\* C16: ensurePathExists never modifies its argument: when the end is
\* reachable it returns the argument itself with every cell unchanged; when
\* it is not, the repair is made on a separate copy and the argument's grid
\* is left as it was.
C16_EnsureLeavesArgument ==
    [][ (pc = "ensure" /\ pc' = "done") =>
            /\ SubSeq(heap', 1, Len(heap)) = heap
            /\ Connected(heap, mazeData) => (mazeData' = mazeData /\ heap' = heap)
            /\ ~Connected(heap, mazeData) =>
                  /\ RowsOf(mazeData'.grid) \cap RowsOf(mazeData.grid) = {}
                  /\ RowsOf(mazeData'.grid) \cap DOMAIN heap = {} ]_vars

\* ensurePathExists has returned a repaired maze: its rows are new ones, the
\* corridor was carved through cells that are WALL in the argument
C16_Witness ==
    /\ pc = "done" /\ repaired
    /\ LastRowOf(mazeData) = 2 * height
    /\ \E p \in AllPositions(heap, mazeData.grid) :
          /\ CellAt(heap, mazeData.grid, p).type = PATH
          /\ heap[p.row + 1][p.col].type = WALL

\* the cells of the corridor from s along its row to the column of e, then
\* along that column to e
Corridor(s, e) ==
    { Pos(s.row, col) : col \in Min(s.col, e.col)..Max(s.col, e.col) }
        \cup { Pos(row, e.col) : row \in Min(s.row, e.row)..Max(s.row, e.row) }

\* C17: for a maze whose start and end are not WALL and whose end is not
\* reachable from the start, ensurePathExists returns a maze in which the end
\* is reachable along the corridor that first follows the start's row to the
\* end's column and then the end's column to the end's row.
C17_RepairCorridor ==
    (pc = "done" /\ repaired) =>
        /\ Connected(heap, mazeData)
        /\ \A p \in Corridor(mazeData.startPosition, mazeData.endPosition) :
              CellAt(heap, mazeData.grid, p).type # WALL

\* the repaired maze of an argument (rows 1..height) whose end had only WALL
\* neighbours
C17_Witness ==
    /\ pc = "done" /\ repaired /\ width >= 3 /\ height >= 3
    /\ \A d \in { q \in AllPositions(heap, mazeData.grid) :
                     Adjacent(q, mazeData.endPosition) } :
          heap[d.row + 1][d.col].type = WALL

\* p is a path of the grid from s to e: non-WALL cells, each next to the one
\* before it, none twice
IsGridPath(hp, g, p, s, e) ==
    /\ Len(p) >= 1 /\ p[1] = s /\ p[Len(p)] = e
    /\ \A i \in 1..Len(p) : isValidPosition(hp, g, p[i])
    /\ \A i \in 1..(Len(p) - 1) : Adjacent(p[i], p[i + 1])
    /\ \A i, j \in 1..Len(p) : i # j => p[i] # p[j]

\* no two paths of the sequence overlap by more than 0.7
Diverse(list) ==
    \A i, j \in 1..Len(list) :
        i < j => ~TooSimilar(pathSimilarity(list[i], list[j]))

\* three paths from (0,0) to (6,6) in a 7x7 grid: along row 0 and column 6,
\* along column 0 and row 6, and the staircase through (k,k), (k,k+1)
ThreeRoutes ==
    << [i \in 1..13 |-> IF i <= 7 THEN Pos(0, i - 1) ELSE Pos(i - 7, 6)],
       [i \in 1..13 |-> IF i <= 7 THEN Pos(i - 1, 0) ELSE Pos(6, i - 7)],
       [i \in 1..13 |-> Pos((i - 1) \div 2, i \div 2)] >>

\* findMultiplePaths has returned for the 7x7 grid without walls, (0,0) to
\* (6,6), maxPaths = 3
OpenSevenReturned ==
    /\ paths.phase = "done" /\ paths.maxPaths = 3
    /\ width = 7 /\ height = 7
    /\ paths.start = Pos(0, 0) /\ mazeData.endPosition = Pos(6, 6)
    /\ \A p \in AllPositions(heap, mazeData.grid) :
          CellAt(heap, mazeData.grid, p).type # WALL

\* C18 (as claimed): findMultiplePaths on a 7x7 grid with no WALL cell, from
\* (0,0) to (6,6) with maxPaths = 3, returns exactly 3 paths, each of at least
\* 13 cells, and no two of them overlap by more than 0.7 unless the grid has
\* fewer than 3 paths that diverse.  The grid has three such paths
\* (ThreeRoutes), yet the depth-first search returns the first three paths it
\* reaches, which differ only near the end.
C18_ThreeDiversePaths ==
    OpenSevenReturned =>
        /\ Len(paths.list) = 3
        /\ \A i \in 1..3 : Len(paths.list[i]) >= 13
        /\ ( /\ \A i \in 1..3 :
                  IsGridPath(heap, mazeData.grid, ThreeRoutes[i],
                             mazeData.startPosition, mazeData.endPosition)
             /\ Diverse(ThreeRoutes) )
           => Diverse(paths.list)

----------------------------------------------------------------------------
(* MazeExplorer: the handlers of the control panel and the callbacks that  *)
(* step the algorithm (runAnimation, step)                                 *)

\* largest number of timers and frames pending at a time
MaxCallbacks == 2

\* the values the speed slider is moved between
Speeds == {30, 60}

\* the rows of a grid in row order
GridRows(g) == [k \in 1..GridHeight(g) |-> g[k - 1]]

AppendNew(order, s) ==
    order \o SelectSeq(s, LAMBDA id : \A i \in 1..Len(order) : order[i] # id)

\* the rows no reference leads to are dropped: what is left of the heap are
\* the rows of mazeData, of the instance and of the last result, renumbered.
\* The Position objects of a row, which the copies of the row share, are
\* named by the first row that holds them, the rows of the instance first
Collect(hp, m, a, r) ==
    LET order == AppendNew(AppendNew(GridRows(m.grid), GridRows(a.grid)), GridRows(r.grid))
        id(old) == CHOOSE i \in 1..Len(order) : order[i] = old
        ren(g) == [row \in DOMAIN g |-> id(g[row])]
        holders == AppendNew(AppendNew(GridRows(a.grid), GridRows(r.grid)), GridRows(m.grid))
        held == << >> \o [i \in 1..Len(holders) |-> hp[holders[i]][0].position.id[1]]
        first == << >> \o [i \in 1..Len(order) |->
                    CHOOSE j \in 1..Len(holders) :
                       /\ held[j] = hp[order[i]][0].position.id[1]
                       /\ \A k \in 1..(j - 1) : held[k] # held[j]]
    IN  [heap |-> [i \in 1..Len(order) |->
                     [col \in DOMAIN hp[order[i]] |->
                         [hp[order[i]][col] EXCEPT
                             !.position = PositionObject(first[i],
                                              hp[order[i]][col].position.row, col)]]],
         maze |-> [m EXCEPT !.grid = ren(m.grid)],
         alg |-> [a EXCEPT !.grid = ren(a.grid)],
         ret |-> [r EXCEPT !.grid = ren(r.grid)]]

\* requestAnimationFrame returns an id no pending frame has and that no
\* reference still holds
FreshId(cbs, ref) ==
    CHOOSE id \in 1..(MaxCallbacks + 2) :
        /\ id # ref
        /\ \A cb \in cbs : cb.id # id
        /\ \A lower \in 1..(id - 1) : lower = ref \/ \E cb \in cbs : cb.id = lower

Frame(id) == [kind |-> "frame", id |-> id]
Timer(id) == [kind |-> "timer", id |-> id]

\* the effect on [isRunning, speed] of a render with isRunning true, which
\* React runs after the render is committed: a frame or a timer may fire
\* before it; the control panel is only handled after it
Effect == [kind |-> "effect", id |-> 0]

\* cancelAnimationFrame(animationRef.current) of handlePause: only a pending
\* frame of that id is cancelled
CancelFrame(cbs, ref) == cbs \ {Frame(ref)}

\* runAnimation called with isRunning true: requestAnimationFrame(step)
RunAnimation(cbs, ref, a) ==
    IF a.name = "none"
    THEN [callbacks |-> cbs, animationRef |-> ref]
    ELSE LET id == FreshId(cbs, ref)
         IN  [callbacks |-> cbs \cup {Frame(id)}, animationRef |-> id]

\* handleStart, called by the Start/Pause button (onClick = isRunning ?
\* onPause : onStart, disabled = isDone); setIsRunning(true) makes the effect
\* on [isRunning, speed] run
Start ==
    /\ pc = "done"
    /\ ~isRunning
    /\ ~isDone
    /\ Effect \notin callbacks
    /\ Cardinality(callbacks \ {Effect}) < MaxCallbacks
    /\ LET rs == IF isDone THEN resetMazeVisitation(heap, mazeData)
                           ELSE [heap |-> heap, maze |-> mazeData]
           cbs == IF isDone THEN CancelFrame(callbacks, animationRef) ELSE callbacks
           ref == IF isDone THEN NoFrame ELSE animationRef
           a0 == IF isDone THEN NoAlg ELSE alg
           r0 == IF isDone THEN NoRet ELSE ret
           cl == cloneMazeData(rs.heap, mazeData)
           res == IF a0.name = "none"
                  THEN CreateAlgorithm(algorithm, cl.heap, cl.maze)
                  ELSE [heap |-> rs.heap, alg |-> a0]
       IN  \E live \in {Collect(res.heap, rs.maze, res.alg, r0)} :
           /\ heap' = live.heap
           /\ mazeData' = live.maze
           /\ alg' = live.alg
           /\ ret' = live.ret
           /\ callbacks' = cbs \cup {Effect}
           /\ animationRef' = ref
           /\ stats' = IF isDone THEN NoStats ELSE stats
    /\ isRunning' = TRUE
    /\ isDone' = FALSE
    /\ UNCHANGED <<genVars, resetData, paths, algorithm, speed>>

\* handlePause, called by the Start/Pause button
Pause ==
    /\ pc = "done"
    /\ isRunning
    /\ ~isDone
    /\ Effect \notin callbacks
    /\ isRunning' = FALSE
    /\ callbacks' = CancelFrame(callbacks, animationRef)
    /\ animationRef' = NoFrame
    /\ UNCHANGED <<heap, mazeData, genVars, algVars, paths, isDone, algorithm, speed, stats>>

\* what handleReset does to the state
ResetEffect ==
    LET rs == resetMazeVisitation(heap, mazeData)
    IN  \E live \in {Collect(rs.heap, rs.maze, NoAlg, NoRet)} :
        /\ heap' = live.heap
        /\ mazeData' = live.maze
        /\ alg' = NoAlg
        /\ ret' = NoRet
        /\ isRunning' = FALSE
        /\ isDone' = FALSE
        /\ stats' = NoStats
        /\ callbacks' = CancelFrame(callbacks, animationRef)
        /\ animationRef' = NoFrame

\* handleReset, called by the Reset button (never disabled)
Reset ==
    /\ pc = "done"
    /\ Effect \notin callbacks
    /\ ResetEffect
    /\ UNCHANGED <<genVars, resetData, paths, algorithm, speed>>

\* handleAlgorithmChange, called by the algorithm Select (disabled =
\* isRunning) with any of its four items
AlgorithmChange ==
    /\ pc = "done"
    /\ ~isRunning
    /\ Effect \notin callbacks
    /\ \E newAlgorithm \in Algorithms \ {algorithm} :
          algorithm' = newAlgorithm
    /\ IF isRunning \/ isDone
       THEN ResetEffect
       ELSE UNCHANGED <<heap, mazeData, alg, ret, isRunning, isDone, stats,
                        callbacks, animationRef>>
    /\ UNCHANGED <<genVars, resetData, paths, speed>>

\* handleSpeedChange, called by the speed slider (never disabled): setSpeed
\* makes the effect on [isRunning, speed] run
SpeedChange ==
    /\ pc = "done"
    /\ Effect \notin callbacks
    /\ Cardinality(callbacks \ {Effect}) < MaxCallbacks
    /\ \E newSpeed \in Speeds \ {speed} :
          speed' = newSpeed
    /\ callbacks' = IF isRunning THEN callbacks \cup {Effect} ELSE callbacks
    /\ UNCHANGED <<heap, mazeData, genVars, algVars, paths, isRunning, isDone,
                   algorithm, stats, animationRef>>

\* the effect on [isRunning, speed] of a render with isRunning true:
\* runAnimation()
EffectRuns ==
    /\ Effect \in callbacks
    /\ LET run == RunAnimation(callbacks \ {Effect}, animationRef, alg)
       IN  /\ callbacks' = run.callbacks
           /\ animationRef' = run.animationRef
    /\ UNCHANGED <<heap, mazeData, genVars, algVars, paths, isRunning, isDone,
                   algorithm, speed, stats>>

\* a delay timer fires: animationRef.current = requestAnimationFrame(step)
TimerFires ==
    /\ \E cb \in callbacks :
          /\ cb.kind = "timer"
          /\ LET rest == callbacks \ {cb}
                 id == FreshId(rest, animationRef)
             IN  /\ callbacks' = rest \cup {Frame(id)}
                 /\ animationRef' = id
    /\ UNCHANGED <<heap, mazeData, genVars, algVars, paths, isRunning, isDone,
                   algorithm, speed, stats>>

\* an animation frame fires: step().  isRunning is the value of the render
\* whose runAnimation created step, and runAnimation only goes on when that
\* value is true, so step only returns early when there is no instance.  A
\* reference to the frame that fires is stale from now on
FrameFires ==
    /\ \E cb \in callbacks :
          /\ cb.kind = "frame"
          /\ IF alg.name = "none"
             THEN /\ callbacks' = callbacks \ {cb}
                  /\ UNCHANGED <<heap, mazeData, alg, ret, isRunning, isDone, stats>>
             ELSE \E res \in {CallNext(heap, alg)} :
                    LET result == res.ret
                        m == IF result.kind = "null" THEN mazeData
                             ELSE [mazeData EXCEPT !.grid = result.grid]
                    IN  \E live \in {Collect(res.heap, m, res.alg, result)} :
                        /\ heap' = live.heap
                        /\ mazeData' = live.maze
                        /\ alg' = live.alg
                        /\ ret' = live.ret
                        /\ stats' = IF result.kind = "null" THEN stats
                                    ELSE [visitedCount |-> result.visitedCount,
                                          pathLength |-> result.pathLength]
                        /\ isDone' = IF result.kind # "null" /\ result.isDone
                                     THEN TRUE ELSE isDone
                        /\ isRunning' = IF result.kind # "null" /\ result.isDone
                                        THEN FALSE ELSE isRunning
                        /\ callbacks' =
                              IF result.kind # "null" /\ ~result.isDone
                              THEN (callbacks \ {cb}) \cup {Timer(cb.id)}
                              ELSE callbacks \ {cb}
          /\ animationRef' = IF animationRef = cb.id THEN StaleFrame ELSE animationRef
    /\ UNCHANGED <<genVars, resetData, paths, algorithm, speed>>

\* the mazes ensurePathExists(generateMaze(2, 2)) returns, which are the
\* final states of SpecGen for width = height = 2: the end, the WALL cells
\* and the kind of the start cell (PATH when the adjacency block of
\* generateMaze has opened it)
GeneratedTwo ==
    { [endP |-> Pos(0, 1), walls |-> {Pos(1, 0)}, startKind |-> START],
      [endP |-> Pos(0, 1), walls |-> {Pos(1, 0), Pos(1, 1)}, startKind |-> PATH],
      [endP |-> Pos(1, 0), walls |-> {Pos(0, 1)}, startKind |-> START],
      [endP |-> Pos(1, 0), walls |-> {Pos(0, 1), Pos(1, 1)}, startKind |-> PATH],
      [endP |-> Pos(1, 1), walls |-> {Pos(1, 0)}, startKind |-> START],
      [endP |-> Pos(1, 1), walls |-> {Pos(0, 1)}, startKind |-> START] }

\* the rows of such a maze allocated at the end of a heap of `base` rows;
\* every Position object is created anew, as in createEmptyMaze
GeneratedHeap(gm, base) ==
    [k \in 1..2 |->
        [col \in 0..1 |->
            LET position == PositionObject(base + k, k - 1, col)
            IN  IF k = 1 /\ col = 0
                THEN NewCell(gm.startKind, TRUE, FALSE, position)
                ELSE IF Pos(k - 1, col) = gm.endP
                THEN NewCell(END, FALSE, TRUE, position)
                ELSE IF Pos(k - 1, col) \in gm.walls
                THEN NewCell(WALL, FALSE, FALSE, position)
                ELSE NewCell(PATH, FALSE, FALSE, position)]]

\* generateNewMaze, called by the Generate New Maze button (disabled =
\* isRunning) and, through the effect on [mazeSize], by the maze-size slider
\* (disabled = isRunning; the effect calls it only when isRunning is false):
\* a new maze replaces mazeData, isDone and the stats are cleared;
\* algorithmRef and animationRef are not touched.  The Position objects of
\* the new maze are new: no cell of the heap carries their identities
GenerateNewMaze ==
    /\ pc = "done"
    /\ ~isRunning
    /\ Effect \notin callbacks
    /\ \E gm \in GeneratedTwo :
          LET base == Len(heap)
              m == [CleanMaze(2, 2, gm.endP) EXCEPT
                       !.grid = [row \in 0..1 |-> base + row + 1]]
          IN  \E live \in {Collect(heap \o GeneratedHeap(gm, base), m, alg, ret)} :
              /\ heap' = live.heap
              /\ mazeData' = live.maze
              /\ alg' = live.alg
              /\ ret' = live.ret
    /\ isDone' = FALSE
    /\ stats' = NoStats
    /\ UNCHANGED <<genVars, resetData, paths, isRunning, algorithm, speed,
                   animationRef, callbacks>>

NextDriver ==
    \/ Start
    \/ Pause
    \/ Reset
    \/ AlgorithmChange
    \/ SpeedChange
    \/ GenerateNewMaze
    \/ EffectRuns
    \/ TimerFires
    \/ FrameFires

\* MazeExplorer after mount: the maze is the one generateNewMaze has set
\* (effect on [mazeSize]), here of size 2
InitDriver ==
    /\ width = 2
    /\ height = 2
    /\ \E gm \in GeneratedTwo :
          /\ heap = GeneratedHeap(gm, 0)
          /\ mazeData = CleanMaze(2, 2, gm.endP)
    /\ InitAlgVars

SpecDriver == InitDriver /\ [][NextDriver]_vars

\* C19 (as claimed): an algorithm instance is stepped by at most one step
\* chain at a time: in every reachable state at most one pending callback
\* (delay timer or animation frame) will call next() on the current instance,
\* whatever the user does with Start, Pause, Reset and the speed slider.
\* Every pending callback is or leads to a call of step, which calls next()
\* on algorithmRef.current.
C19_OneStepChain ==
    alg.name # "none" => Cardinality(callbacks \ {Effect}) <= 1

\* paused by handlePause: an instance exists, it is not running and not done
Paused == alg.name # "none" /\ ~isRunning /\ ~isDone

\* C20 (as claimed): after handlePause, next() is not called again on the
\* instance until the user presses Start, whichever callback (the delay timer
\* or the animation frame) was pending at the moment of the pause: while
\* paused, no step changes the instance or the cells it works on.
C20_PauseStopsStepping ==
    [][ (Paused /\ alg'.name # "none" /\ ~isRunning') =>
            /\ [alg' EXCEPT !.grid = alg.grid] = alg
            /\ \A row \in DOMAIN alg.grid :
                  heap'[alg'.grid[row]] = heap[alg.grid[row]] ]_vars

\* C21 (as claimed): after the user selects a different algorithm, in any
\* driver state (running, paused in mid-run, done), the instance of the
\* previous algorithm is never stepped again, and the next Start creates an
\* instance of the newly selected algorithm on a fresh clone of the maze:
\* every Start leaves an instance of the selected algorithm, and a call of
\* next() is always on an instance of the selected algorithm.
C21_AlgorithmChangeDropsInstance ==
    [][ /\ (~isRunning /\ isRunning') => alg'.name = algorithm'
        /\ (alg.name # "none" /\ alg'.name = alg.name /\ ret' # ret)
              => alg.name = algorithm ]_vars

----------------------------------------------------------------------------
(* The cells an operation is about to read or write.  The loops over       *)
(* r < grid.length, c < grid[r].length (cloneMazeData, resetMazeVisitation,*)
(* countVisited, dijkstra's initialisation) are left out: their indexes    *)
(* are taken from the arrays themselves.                                   *)

\* generation, findMultiplePaths and runs of the algorithms
InitCore == InitGen \/ InitPaths

NextCore == NextGen \/ NextAlg \/ NextPaths

SpecCore == InitCore /\ [][NextCore]_vars

\* the cells the test of the extra-openings loop may read around (row, col):
\* each read stands behind its own comparison with 0 or the size
OpeningReads(h, w, row, col) ==
    {Pos(row, col)}
        \cup (IF col > 0 THEN {Pos(row, col - 1)} ELSE {})
        \cup (IF col > 0 /\ col < w - 1 THEN {Pos(row, col + 1)} ELSE {})
        \cup (IF row > 0 THEN {Pos(row - 1, col)} ELSE {})
        \cup (IF row > 0 /\ row < h - 1 THEN {Pos(row + 1, col)} ELSE {})
        \cup (IF row > 0 /\ col > 0 THEN {Pos(row - 1, col - 1)} ELSE {})
        \cup (IF row > 0 /\ col > 0 /\ row < h - 1 /\ col < w - 1
              THEN {Pos(row + 1, col + 1)} ELSE {})

\* the cells the zigzag loop of createPathToEnd steps on after cur
RECURSIVE ZigzagCells(_, _)
ZigzagCells(cur, endP) ==
    IF cur = endP THEN {}
    ELSE {ZigzagNext(cur, endP)} \cup ZigzagCells(ZigzagNext(cur, endP), endP)

\* the two cells the approach loop may step on from `walk`
ApproachTargets(w, endP) ==
    { Pos(IF w.row < endP.row THEN w.row + 1
          ELSE IF w.row > endP.row THEN w.row - 1 ELSE w.row, w.col),
      Pos(w.row, IF w.col < endP.col THEN w.col + 1
                 ELSE IF w.col > endP.col THEN w.col - 1 ELSE w.col) }

\* the cells the next step of generateMaze reads or writes
GenReads ==
    CASE pc = "call" ->
           { potentialEndPositions(width, height)[k] : k \in 1..3 }
               \cup {Pos(0, 0)} \cup LatticeReads(height, width, Pos(0, 0))
      [] pc = "carve" /\ stack # << >> ->
           LET top == stack[Len(stack)]
           IN  top.neighbors
                 \cup { Pos(top.position.row + (n.row - top.position.row) \div 2,
                            top.position.col + (n.col - top.position.col) \div 2) :
                        n \in top.neighbors }
                 \cup UNION { LatticeReads(height, width, n) : n \in top.neighbors }
                 \cup {mazeData.endPosition}
      [] pc = "openings" /\ loopI < additionalPaths(width, height) ->
           UNION { OpeningReads(height, width, row, col) :
                     row \in InteriorIndexes(height), col \in InteriorIndexes(width) }
      [] pc = "approach" /\ loopI < 3 ->
           { Pos(rRow, rCol) :
               rRow \in NearEndIndexes(mazeData.endPosition.row, height),
               rCol \in NearEndIndexes(mazeData.endPosition.col, width) }
      [] pc = "walk" ->
           { p \in ApproachTargets(walk, mazeData.endPosition) :
               InBounds(height, width, p) }
      [] pc = "approach" /\ loopI >= 3 ->
           { validAdjacents(mazeData)[k] : k \in 1..Len(validAdjacents(mazeData)) }
      [] pc = "ensure" ->
           {mazeData.startPosition}
               \cup UNION { { d \in { Directions(p)[k] : k \in 1..4 } :
                                InRange(heap, mazeData.grid, d) } :
                            p \in AllPositions(heap, mazeData.grid) }
               \cup ZigzagCells(mazeData.startPosition, mazeData.endPosition)
      [] OTHER -> {}

\* the parent references held by the cells of a grid
ParentsIn(hp, g) ==
    { CellAt(hp, g, p).parent : p \in AllPositions(hp, g) } \ {NoParent}

\* the cells the next call of next() may read or write: a cell taken from the
\* frontier, those of its four directions that pass the range test of
\* isValidPosition, and the cells reconstructPath follows parent to
AlgReads ==
    IF alg.name = "none" \/ alg.isDone THEN {}
    ELSE { alg.list[i] : i \in 1..Len(alg.list) }
           \cup UNION { { d \in { Directions(alg.list[i])[k] : k \in 1..4 } :
                            InRange(heap, alg.grid, d) } : i \in 1..Len(alg.list) }
           \cup {alg.endPosition}
           \cup ParentsIn(heap, alg.grid)

\* the cells the next step of findMultiplePaths reads: the cell the next
\* iteration of the loop of dfs tests, and once dfs(start, []) has returned
\* the cells the second attempt tests, when its guard lets it run
PathsReads ==
    IF paths.phase # "dfs" THEN {}
    ELSE IF paths.stack = << >>
    THEN IF Len(paths.list) < 2 /\ GridHeight(mazeData.grid) > 5
                                /\ GridWidth(heap, mazeData.grid) > 5
         THEN pathsBfsReads(heap, mazeData.grid, mazeData.endPosition, paths.maxPaths,
                            << [pos |-> paths.start, path |-> << paths.start >>] >>,
                            {paths.start}, paths.list)
         ELSE {}
    ELSE LET top == paths.stack[Len(paths.stack)]
         IN  IF top.k > Len(top.ds) THEN {}
             ELSE { d \in {top.ds[top.k]} : InRange(heap, mazeData.grid, d) }

\* (row, col) is a cell of a height x width grid
InGrid(h, w, p) == p.row \in 0..(h - 1) /\ p.col \in 0..(w - 1)

\* C22: no operation of the core reads or writes a grid cell at a row outside
\* [0, height) or a column outside [0, width): generateMaze under every
\* random outcome, ensurePathExists, every next() of the four algorithms and
\* findMultiplePaths only use indexes inside the grid.
C22_IndexesInsideGrid ==
    /\ \A p \in GenReads : InGrid(height, width, p)
    /\ \A p \in AlgReads : InGrid(GridHeight(alg.grid), GridWidth(heap, alg.grid), p)
    /\ \A p \in PathsReads : InGrid(height, width, p)

\* an algorithm is about to expand a cell on the border of a generated maze,
\* and the extra-openings loop has run on a maze of the smallest width
C22_Witness ==
    /\ pc = "done" /\ alg.name # "none" /\ ~alg.isDone /\ width = 2 /\ height >= 5
    /\ \E i \in 1..Len(alg.list) :
          /\ alg.list[i] # alg.startPosition
          /\ \E k \in 1..4 : ~InRange(heap, alg.grid, Directions(alg.list[i])[k])

\* C23: at every point of a run of any of the four algorithms on a clean
\* maze the parent references form a tree rooted at the start: the start has
\* no parent, every other cell with visited = true has a parent that is an
\* orthogonally adjacent cell with visited = true, and following parent from
\* any visited cell reaches the start without meeting a cell twice.
C23_ParentTree ==
    alg.name # "none" =>
        LET g == alg.grid
            V == VisitedCells(heap, g)
        IN  /\ CellAt(heap, g, alg.startPosition).parent = NoParent
            /\ \A p \in V \ {alg.startPosition} :
                  LET parent == CellAt(heap, g, p).parent
                      chain == ParentChain(heap, g, p, width * height)
                  IN  /\ parent # NoParent
                      /\ parent \in V
                      /\ Adjacent(p, parent)
                      /\ chain[Len(chain)] = alg.startPosition
                      /\ \A i, j \in 1..Len(chain) : i # j => chain[i] # chain[j]

\* dijkstra in mid-run with a visited cell three steps or more from the start
C23_Witness ==
    /\ alg.name = "dijkstra" /\ ~alg.isDone /\ ret.kind = "step"
    /\ \E p \in VisitedCells(heap, alg.grid) :
          Len(ParentChain(heap, alg.grid, p, width * height)) >= 4

\* C24 (as claimed): in every step returned by any of the four algorithms,
\* final or not, visitedCount equals the number of cells whose visited flag is
\* true in the grid at that moment.  dfs, astar and dijkstra return a counter
\* of the cells expanded so far in their non-final steps, and the cells of
\* the frontier have their flag set without having been expanded.
C24_VisitedCountIsFlagCount ==
    (alg.name # "none" /\ ret.kind = "step") =>
        ret.visitedCount = Cardinality(VisitedCells(heap, alg.grid))

\* the cell astar has expanded in the step: the one that entered closedSet
Expanded == CHOOSE p \in alg'.closedSet : p \notin alg.closedSet

\* next() of astar has expanded a cell
AstarExpansion ==
    /\ alg.name = "astar" /\ alg'.name = "astar"
    /\ alg'.closedSet # alg.closedSet

\* C25: when astar expands a cell, each non-WALL neighbour that is not in the
\* closed set is treated as follows: if it is not in the open set it is added
\* with g = g(expanded) + 1, h = Manhattan distance to the end, f = g + h and
\* parent = the expanded cell; if it is in the open set its g, f and parent
\* change only when g(expanded) + 1 is strictly less than its stored g.  A
\* cell in the closed set is not changed, and every discovered cell has
\* f = g + h.
C25_AstarRelaxation ==
    [][ AstarExpansion =>
          LET g == alg.grid
              current == Expanded
              tentativeG == CellAt(heap, g, current).g + 1
          IN  /\ \A k \in 1..4 :
                    LET d == Directions(current)[k]
                    IN  (isValidPosition(heap, g, d) /\ d \notin alg'.closedSet) =>
                          LET old == CellAt(heap, g, d)
                              new == CellAt(heap', g, d)
                          IN  IF ~InList(alg.list, d)
                              THEN /\ InList(alg'.list, d)
                                   /\ new.g = tentativeG
                                   /\ new.h = manhattanDistance(d, alg.endPosition)
                                   /\ new.f = new.g + new.h
                                   /\ new.parent = current
                              ELSE IF tentativeG < old.g
                              THEN /\ new.g = tentativeG
                                   /\ new.f = new.g + new.h
                                   /\ new.parent = current
                              ELSE new = old
              /\ \A p \in alg.closedSet : CellAt(heap', g, p) = CellAt(heap, g, p)
              /\ \A p \in VisitedCells(heap', g) :
                    CellAt(heap', g, p).f = CellAt(heap', g, p).g + CellAt(heap', g, p).h
      ]_vars

\* astar has expanded a cell next to a cell of the open set whose stored g was
\* not higher than the g through the expanded cell, and next to a closed cell
C25_Witness ==
    /\ alg.name = "astar" /\ ret.kind = "step" /\ ~ret.isDone
    /\ \E c \in alg.closedSet :
          /\ \E k \in 1..4 :
                LET d == Directions(c)[k]
                IN  /\ isValidPosition(heap, alg.grid, d)
                    /\ InList(alg.list, d)
                    /\ CellAt(heap, alg.grid, d).parent # c
                    /\ CellAt(heap, alg.grid, d).g <= CellAt(heap, alg.grid, c).g + 1
          /\ \E k \in 1..4 : Directions(c)[k] \in alg.closedSet

\* the in-bounds orthogonal neighbours of the end cell of maze m
EndNeighbours(hp, m) ==
    { p \in AllPositions(hp, m.grid) : Adjacent(p, m.endPosition) }

\* C26: in every maze returned by generateMaze (sizes >= 5), at least one of
\* the in-bounds orthogonal neighbours of the end cell has kind PATH; this
\* holds from the end of the adjacency guarantee on, that is for the maze
\* handed to ensurePathExists and for the maze it returns.
C26_EndHasPathNeighbour ==
    (pc \in {"ensure", "done"} /\ width >= 5 /\ height >= 5) =>
        \E p \in EndNeighbours(heap, mazeData) :
            CellAt(heap, mazeData.grid, p).type = PATH

\* generateMaze has returned a 5x5 maze whose end has one PATH neighbour and
\* one WALL neighbour
C26_Witness ==
    /\ pc = "done" /\ width = 5 /\ height = 5 /\ alg.name = "none"
    /\ \E p, q \in EndNeighbours(heap, mazeData) :
          /\ CellAt(heap, mazeData.grid, p).type = PATH
          /\ CellAt(heap, mazeData.grid, q).type = WALL

\* the cells with even row and even column
Lattice(hp, g) == { p \in AllPositions(hp, g) : p.row % 2 = 0 /\ p.col % 2 = 0 }

\* the pairs of orthogonally adjacent cells of W
Passages(W) == { pq \in W \X W : Adjacent(pq[1], pq[2]) /\ pq[1].row + pq[1].col < pq[2].row + pq[2].col }

\* the cells of W are connected and hold no cycle: one simple path between
\* any two of them
IsTree(W) ==
    /\ W # {}
    /\ ReachableFrom({CHOOSE p \in W : TRUE}, W) = W
    /\ Cardinality(Passages(W)) = Cardinality(W) - 1

\* carvePath(startPosition) has just returned
AfterCarve == pc = "openings" /\ loopI = 0

\* C27 (as claimed): for odd width and height, right after
\* carvePath(startPosition) and before any post-processing, the non-WALL cells
\* form a perfect maze over the cells with even row and even column: between
\* any two of these, the end corner included, there is exactly one simple
\* path of non-WALL cells.  The end cell is of type END before the carve
\* starts, getUnvisitedNeighbors only returns WALL cells, so the carve never
\* reaches the end corner.
C27_PerfectMazeAfterCarve ==
    (AfterCarve /\ IsOdd(width) /\ IsOdd(height)) =>
        LET W == Walkable(heap, mazeData.grid)
        IN  /\ Lattice(heap, mazeData.grid) \subseteq W
            /\ IsTree(W)

----------------------------------------------------------------------------
(* C28: what findMultiplePaths returns *)

\* p goes from s to e in steps between orthogonally adjacent non-WALL cells
\* and visits no cell twice
SimpleRoute(hp, g, p, s, e) ==
    /\ Len(p) >= 1 /\ p[1] = s /\ p[Len(p)] = e
    /\ \A i \in 1..(Len(p) - 1) :
          /\ Adjacent(p[i], p[i + 1])
          /\ CellAt(hp, g, p[i]).type # WALL
          /\ CellAt(hp, g, p[i + 1]).type # WALL
    /\ \A i, j \in 1..Len(p) : i # j => p[i] # p[j]

\* at most maxPaths paths, pairwise distinct, each a simple route
RoutesReturned ==
    /\ Len(paths.list) <= paths.maxPaths
    /\ \A i, j \in 1..Len(paths.list) : i # j => paths.list[i] # paths.list[j]
    /\ \A i \in 1..Len(paths.list) :
          SimpleRoute(heap, mazeData.grid, paths.list[i], paths.start,
                      mazeData.endPosition)

\* C28 (as claimed): for any grid, start, end and maxPaths >= 0,
\* findMultiplePaths returns at most maxPaths paths, pairwise distinct as cell
\* sequences, each beginning at start, ending at end, stepping only between
\* orthogonally adjacent non-WALL cells and visiting no cell twice.  dfs never
\* looks at the type of the start cell, so from a WALL start every path
\* begins with a step out of a WALL cell.
C28_RoutesFromAnyStart ==
    paths.phase = "done" => RoutesReturned

\* C28 (amended): for any grid, any start that is a non-WALL cell of the grid,
\* any end and any maxPaths >= 0, findMultiplePaths returns at most maxPaths
\* paths, pairwise distinct as cell sequences, each beginning at start, ending
\* at end, stepping only between orthogonally adjacent non-WALL cells and
\* visiting no cell twice.
C28_RoutesFromOpenStart ==
    (paths.phase = "done" /\ CellAt(heap, mazeData.grid, paths.start).type # WALL)
        => RoutesReturned

\* two or more paths of more than one cell are returned from a non-WALL start
C28_Witness ==
    /\ paths.phase = "done"
    /\ CellAt(heap, mazeData.grid, paths.start).type # WALL
    /\ Len(paths.list) >= 2
    /\ \A i \in 1..Len(paths.list) : Len(paths.list[i]) >= 3

----------------------------------------------------------------------------
(* C29: reset after a search gives back the maze the search started from *)

\* the grids g1 and g2 have the same size and equal cells: kind, isStart,
\* isEnd, visited, parent, g, h and f
SameCells(hp, g1, g2) ==
    /\ AllPositions(hp, g1) = AllPositions(hp, g2)
    /\ \A p \in AllPositions(hp, g1) :
          LET a == CellAt(hp, g1, p)
              b == CellAt(hp, g2, p)
          IN  /\ a.type = b.type
              /\ a.isStart = b.isStart /\ a.isEnd = b.isEnd
              /\ a.visited = b.visited
              /\ a.parent = b.parent
              /\ a.g = b.g /\ a.h = b.h /\ a.f = b.f

\* C29 (as claimed): for any clean maze m as returned by generateMaze, any of
\* the four algorithms and any number of next() calls on a clone of m,
\* resetMazeVisitation of the resulting maze is equal to m cell for cell:
\* kind, isStart, isEnd, visited = false, and parent, g, h, f undefined.
\* When width or height is 2 the start is next to an end corner, and the
\* block that opens a neighbour of the end can turn the start cell's kind
\* into PATH; every algorithm marks the start VISITING when it is created,
\* and the reset then gives the start the kind START.
C29_ResetUndoesSearch ==
    /\ alg.name # "none" =>
          LET rs == resetMazeVisitation(heap, InstanceMaze(alg, mazeData))
          IN  /\ SameCells(rs.heap, rs.maze.grid, mazeData.grid)
              /\ Unsearched(rs.heap, rs.maze.grid)
    /\ resetData.height # 0 => SameCells(heap, resetData.grid, mazeData.grid)

----------------------------------------------------------------------------
(* C30: the kinds of the cells during a run *)

\* the cells in the frontier (queue, stack or open set) of the instance
Frontier(a) == CellSet(a.list)

\* the cells of the instance's grid that are neither start nor end
InnerCells(hp, a) ==
    { p \in AllPositions(hp, a.grid) :
        ~CellAt(hp, a.grid, p).isStart /\ ~CellAt(hp, a.grid, p).isEnd }

\* an instance exists and its run is not done
Running(a) == a.name # "none" /\ ~a.isDone

\* VISITING is the frontier, VISITED cells have left it, and a cell has the
\* kind it had in the clean maze exactly when its visited flag is false
KindsFollowSearch(hp, a) ==
    Running(a) =>
        \A p \in InnerCells(hp, a) :
            LET cell == CellAt(hp, a.grid, p)
                original == CellAt(hp, mazeData.grid, p).type
            IN  /\ cell.type = VISITING <=> p \in Frontier(a)
                /\ cell.type = VISITED => (cell.visited /\ p \notin Frontier(a))
                /\ cell.type \in {VISITING, VISITED, PATH, WALL}
                /\ original \in {PATH, WALL}
                /\ cell.type = original <=> ~cell.visited

\* no cell is VISITED when the instance is created, and a next() call that
\* leaves the run not done adds to the VISITED cells exactly the cell it took
\* from the frontier, unless that is the start or the end
VisitedIsExpanded ==
    /\ (alg.name = "none" /\ Running(alg')) =>
           CellsOfType(heap', alg'.grid, VISITED) = {}
    /\ (Running(alg) /\ Running(alg') /\ alg'.list # alg.list) =>
           CellsOfType(heap', alg.grid, VISITED) =
               CellsOfType(heap, alg.grid, VISITED)
                   \cup ((Frontier(alg) \ Frontier(alg')) \cap InnerCells(heap, alg))

\* C30: between next() calls, while a run of any of the four algorithms on a
\* clean maze is not done, every cell that is neither start nor end has kind
\* VISITING exactly when it is in the frontier, kind VISITED exactly when it
\* has been expanded, and its original kind (PATH or WALL) exactly when its
\* visited flag is false.
C30_KindsFollowSearch ==
    [][ /\ KindsFollowSearch(heap, alg) /\ KindsFollowSearch(heap', alg')
        /\ VisitedIsExpanded ]_vars

\* a run that is not done has a cell in the frontier, an expanded cell and a
\* PATH cell it has not reached, none of them the start or the end
C30_Witness ==
    /\ Running(alg) /\ ret.kind = "step"
    /\ \E p, q, r \in InnerCells(heap, alg) :
          /\ CellAt(heap, alg.grid, p).type = VISITING
          /\ CellAt(heap, alg.grid, q).type = VISITED
          /\ CellAt(heap, alg.grid, r).type = PATH

----------------------------------------------------------------------------
(* C31: what next() leaves alone *)

\* an instance has just been created
Created == alg.name = "none" /\ alg'.name # "none"

\* next() has been called on the instance
NextCalled == alg.name # "none" /\ alg'.name = alg.name

\* C31: no next() call of any of the four algorithms changes which cells have
\* kind WALL, changes any cell's isStart or isEnd flag, or changes the kind of
\* the end cell; the start cell's kind is set to VISITING when the instance is
\* created and is never changed by next().
C31_NextFrame ==
    [][ /\ Created =>
              CellAt(heap', alg'.grid, alg'.startPosition).type = VISITING
        /\ NextCalled =>
              /\ alg'.grid = alg.grid
              /\ CellsOfType(heap', alg.grid, WALL) = CellsOfType(heap, alg.grid, WALL)
              /\ \A p \in AllPositions(heap, alg.grid) :
                    /\ CellAt(heap', alg.grid, p).isStart = CellAt(heap, alg.grid, p).isStart
                    /\ CellAt(heap', alg.grid, p).isEnd = CellAt(heap, alg.grid, p).isEnd
              /\ CellAt(heap', alg.grid, alg.endPosition).type
                    = CellAt(heap, alg.grid, alg.endPosition).type
              /\ CellAt(heap', alg.grid, alg.startPosition).type = VISITING
      ]_vars

\* a run has ended with success: the cells between start and end are
\* SOLUTION, the start is VISITING and the end is END
C31_Witness ==
    /\ alg.name # "none" /\ alg.isDone /\ alg.success
    /\ CellsOfType(heap, alg.grid, SOLUTION) # {}
    /\ CellsOfType(heap, alg.grid, WALL) # {}
    /\ CellAt(heap, alg.grid, alg.startPosition).type = VISITING
    /\ CellAt(heap, alg.grid, alg.endPosition).type = END

----------------------------------------------------------------------------
(* C32: the kinds of the start and end cells of a generated maze *)

\* C32 (as claimed): in every maze returned by generateMaze (sizes >= 5, every
\* random outcome), the cell flagged isStart has kind START and the cell
\* flagged isEnd has kind END.  An approach corridor walks from a PATH cell
\* to the end and sets every cell it steps on to PATH unless the cell is the
\* start; its last step is onto the end cell.
C32_StartEndKinds ==
    (pc = "done" /\ width >= 5 /\ height >= 5) =>
        \A p \in AllPositions(heap, mazeData.grid) :
            LET cell == CellAt(heap, mazeData.grid, p)
            IN  /\ cell.isStart => cell.type = START
                /\ cell.isEnd => cell.type = END

----------------------------------------------------------------------------
(* C33: bfs and dijkstra in lockstep *)

\* grid g1 in heap hp1 and grid g2 in heap hp2 agree on every cell's kind,
\* visited flag and parent
SameSearch(hp1, g1, hp2, g2) ==
    /\ AllPositions(hp1, g1) = AllPositions(hp2, g2)
    /\ \A p \in AllPositions(hp1, g1) :
          /\ CellAt(hp1, g1, p).type = CellAt(hp2, g2, p).type
          /\ CellAt(hp1, g1, p).visited = CellAt(hp2, g2, p).visited
          /\ CellAt(hp1, g1, p).parent = CellAt(hp2, g2, p).parent

\* the bfs instance with the queue and the grid of instance a
BfsTwin(a) == [a EXCEPT !.name = "bfs", !.visitedCount = 0]

\* C33: run on copies of the same clean maze, bfs and dijkstra are
\* step-for-step equivalent: at every call they expand the same cell and
\* discover the same neighbours with the same parents, so after each call
\* their grids agree on every cell's kind, visited flag and parent, they
\* finish on the same call with the same outcome, and dijkstra never changes
\* the g or parent of a cell after the cell is first discovered.  Stated as a
\* simulation: bfs and dijkstra start alike, and from any state dijkstra has
\* reached a call of bfs's next() and a call of dijkstra's next() lead to the
\* same queue, grid and outcome.
C33_BfsDijkstraLockstep ==
    [][ /\ (Created /\ alg'.name = "dijkstra") =>
              LET cl == cloneMazeData(heap, mazeData)
                  b == bfs(cl.heap, cl.maze)
              IN  /\ alg'.list = b.alg.list
                  /\ SameSearch(heap', alg'.grid, b.heap, b.alg.grid)
        /\ (NextCalled /\ alg.name = "dijkstra") =>
              LET b == bfsNext(heap, BfsTwin(alg))
              IN  /\ alg'.list = b.alg.list
                  /\ alg'.isDone = b.alg.isDone /\ alg'.success = b.alg.success
                  /\ SameSearch(heap', alg.grid, b.heap, alg.grid)
                  /\ ret'.kind = b.ret.kind
                  /\ ret'.isDone = b.ret.isDone /\ ret'.success = b.ret.success
                  /\ ret'.pathLength = b.ret.pathLength
                  /\ \A p \in VisitedCells(heap, alg.grid) :
                        /\ CellAt(heap', alg.grid, p).g = CellAt(heap, alg.grid, p).g
                        /\ CellAt(heap', alg.grid, p).parent
                              = CellAt(heap, alg.grid, p).parent
      ]_vars

\* dijkstra has returned a step with cells of different distances in its
\* queue and a cell of the queue next to two expanded cells
C33_Witness ==
    /\ alg.name = "dijkstra" /\ ret.kind = "step" /\ ~ret.isDone
    /\ \E i, j \in 1..Len(alg.list) :
          CellAt(heap, alg.grid, alg.list[i]).g < CellAt(heap, alg.grid, alg.list[j]).g
    /\ \E k \in 1..Len(alg.list) :
          Cardinality({ q \in CellsOfType(heap, alg.grid, VISITED) :
                          Adjacent(q, alg.list[k]) }) >= 2

----------------------------------------------------------------------------
(* C34: astar finds a shortest path *)

\* C34: on every clean maze on which the end is reachable, the success step
\* of astar reports the same pathLength as the success step of bfs, each run
\* to completion on its own copy: astar with the Manhattan heuristic, the
\* first-in-list tie-break and no reopening of closed cells finds a shortest
\* path.
C34_AstarShortest ==
    /\ SuccessStep("astar") =>
          LET other == FinalStep("bfs", SubSeq(heap, 1, LastRowOf(mazeData)), mazeData)
          IN  /\ other.kind = "step" /\ other.success
              /\ other.pathLength = ret.pathLength
              /\ ret.pathLength = ShortestDistance(heap, mazeData) + 1
    /\ SuccessStep("bfs") =>
          LET other == FinalStep("astar", SubSeq(heap, 1, LastRowOf(mazeData)), mazeData)
          IN  /\ other.kind = "step" /\ other.success
              /\ other.pathLength = ret.pathLength

\* astar has found the end by a path longer than the Manhattan distance,
\* after expanding a cell that is not on the path
C34_Witness ==
    /\ SuccessStep("astar")
    /\ ret.pathLength > manhattanDistance(mazeData.startPosition, mazeData.endPosition) + 1
    /\ CellsOfType(heap, alg.grid, VISITED) # {}

----------------------------------------------------------------------------
(* MazeExplorer: a new maze (generateNewMaze, MazeExplorer.tsx 48-66) *)

\* the instance a was created on a maze with the start, the end and the WALL
\* cells of maze m
InstanceOfMaze(hp, a, m) ==
    /\ a.startPosition = m.startPosition
    /\ a.endPosition = m.endPosition
    /\ AllPositions(hp, a.grid) = AllPositions(hp, m.grid)
    /\ CellsOfType(hp, a.grid, WALL) = CellsOfType(hp, m.grid, WALL)

\* C35 (as claimed): after a new maze is generated in the driver (Generate New
\* Maze button or a maze-size change, in any state where it is allowed: idle,
\* paused in mid-run, or done), the next Start creates a new algorithm
\* instance on a clone of the new maze, next() is called on that instance,
\* and no instance created for an earlier maze is ever stepped again.  Hence
\* whenever the driver is running, the instance it steps is one created on
\* the maze of mazeData.  generateNewMaze leaves algorithmRef.current as it
\* is, and handleStart creates an instance only when there is none.
C35_StartUsesNewMaze ==
    (isRunning /\ alg.name # "none") => InstanceOfMaze(heap, alg, mazeData)

----------------------------------------------------------------------------
(* MazeExplorer left to run: the user starts runs and, between them, picks *)
(* the algorithm or asks for a new maze, never pauses or resets; effects,  *)
(* timers and frames fire                                                  *)

NextRun ==
    \/ Start
    \/ AlgorithmChange
    \/ GenerateNewMaze
    \/ EffectRuns
    \/ TimerFires
    \/ FrameFires

\* React runs every pending effect, the browser fires every pending timer
\* and animation frame
SpecRun ==
    /\ InitDriver
    /\ [][NextRun]_vars
    /\ WF_vars(EffectRuns) /\ WF_vars(TimerFires) /\ WF_vars(FrameFires)

\* C36 (as claimed): every run the driver starts eventually ends: once
\* isRunning is true and the user neither pauses nor resets, the driver
\* eventually sets isRunning = false and isDone = true, both when the search
\* finds the end and when the instance has nothing left to do (frontier
\* exhausted, or next() returns null).  step does nothing when next()
\* returns null: it neither changes isRunning or isDone nor asks for another
\* frame.
C36_RunEnds ==
    isRunning ~> (~isRunning /\ isDone)

----------------------------------------------------------------------------
(* C37: generateMaze terminates *)

\* generateMaze runs on: its one thread of control takes the step it is at,
\* and the random choice of the approach corridor between a row move and a
\* column move takes each alternative again and again, so a step that
\* changes the state is taken whenever there is one
SpecGenLive == InitGen /\ [][NextGen]_vars /\ WF_vars(NextGen)

\* carvePath is entered on a cell (a frame is pushed): the cell was a WALL
\* and is one no more
CarveEntersWall ==
    (pc = "carve" /\ Len(stack') = Len(stack) + 1) =>
        LET n == stack'[Len(stack')].position
        IN  /\ CellAt(heap, mazeData.grid, n).type = WALL
            /\ CellAt(heap', mazeData.grid, n).type # WALL

\* while carving no cell turns into a WALL
CarveKeepsOpen ==
    (pc = "carve" /\ pc' = "carve") =>
        \A p \in AllPositions(heap, mazeData.grid) :
            CellAt(heap, mazeData.grid, p).type # WALL
                => CellAt(heap', mazeData.grid, p).type # WALL

\* a move of the approach corridor does not take (r,c) away from the end
CorridorApproaches ==
    (pc = "walk" /\ pc' = "walk") =>
        manhattanDistance(walk', mazeData.endPosition)
            <= manhattanDistance(walk, mazeData.endPosition)

\* C37: generateMaze terminates for every width, height >= 2: carvePath is
\* entered at most once per cell (only on a WALL cell, which it opens for
\* good), and each approach-corridor loop never increases the Manhattan
\* distance from (r,c) to the end and reaches the end provided the random
\* choice between a row move and a column move takes each alternative
\* infinitely often.
C37_GenerateTerminates ==
    /\ <>(pc = "done")
    /\ [][CarveEntersWall /\ CarveKeepsOpen /\ CorridorApproaches]_vars

\* an approach corridor is in the row of the end, two or more cells away: a
\* row move leaves (r,c) where it is
C37_Witness ==
    /\ pc = "walk"
    /\ walk.row = mazeData.endPosition.row
    /\ manhattanDistance(walk, mazeData.endPosition) >= 2

----------------------------------------------------------------------------
(* C38: every walkable cell of a generated maze is reachable *)

\* the non-WALL cells of the maze that no orthogonal walk over non-WALL
\* cells from the start reaches
CutOff(hp, m) ==
    Walkable(hp, m.grid) \ ReachableFrom({m.startPosition}, Walkable(hp, m.grid))

\* C38: in every maze returned by generateMaze for odd sizes >= 5, whatever
\* the random outcomes, every non-WALL cell is reachable from the start over
\* orthogonally adjacent non-WALL cells.
C38_AllWalkableReachable ==
    (pc = "done" /\ width >= 5 /\ height >= 5 /\ IsOdd(width) /\ IsOdd(height))
        => CutOff(heap, mazeData) = {}

\* generateMaze(7, 7) with the end in the corner (6, 6), for one outcome of
\* the shuffles of carvePath: the rooms in the order in which carvePath
\* enters them. The walk goes round the cell (3, 3): (2,2), (0,2), (0,4),
\* (2,4), (2,6), (4,6), (4,4), (6,4), (6,2), (4,2), so that none of the four
\* walls next to (3, 3) is carved.
SevenCarveOrder ==
    << Pos(0, 0), Pos(2, 0), Pos(2, 2), Pos(0, 2), Pos(0, 4), Pos(2, 4), Pos(2, 6),
       Pos(4, 6), Pos(4, 4), Pos(6, 4), Pos(6, 2), Pos(4, 2), Pos(4, 0), Pos(6, 0),
       Pos(0, 6) >>

\* the cells the extra-openings loop draws in the runs followed here: the
\* cells between four rooms
SevenOpenings == { Pos(r, c) : r \in {1, 3, 5}, c \in {1, 3, 5} }

InitSeven ==
    /\ width = 7 /\ height = 7
    /\ heap = << >>
    /\ mazeData = NoMaze
    /\ pc = "call"
    /\ stack = << >>
    /\ loopI = 0
    /\ walk = NoWalk
    /\ repaired = FALSE
    /\ alg = NoAlg
    /\ ret = NoRet
    /\ resetData = NoMaze
    /\ paths = NoPaths
    /\ InitDriverVars

\* the random outcomes followed: the end position, the order of the rooms,
\* the cells drawn by the two loops; the moves of the corridors are free
SevenBegin == GenBegin /\ mazeData'.endPosition = Pos(6, 6)

SevenCarveNeighbor ==
    /\ CarveNeighbor
    /\ LET entered == Cardinality({ k \in 1..Len(SevenCarveOrder) :
                          CellAt(heap, mazeData.grid, SevenCarveOrder[k]).type # WALL })
       IN  Len(stack') > Len(stack)
              => stack'[Len(stack')].position = SevenCarveOrder[entered + 1]

SevenExtraOpening ==
    /\ ExtraOpening
    /\ \E p \in SevenOpenings :
          heap' = IF /\ TypeIs(heap, mazeData.grid, p.row, p.col, WALL)
                     /\ ConnectsPaths(heap, mazeData, p.row, p.col)
                  THEN SetType(heap, mazeData.grid, p, PATH)
                  ELSE heap

SevenApproachPick ==
    /\ ApproachPick
    /\ walk' # NoWalk => walk' \in { Pos(4, 4), Pos(6, 4), Pos(5, 5) }

NextSeven ==
    \/ SevenBegin
    \/ SevenCarveNeighbor
    \/ CarveReturn
    \/ SevenExtraOpening
    \/ ExtraOpeningsDone
    \/ SevenApproachPick
    \/ ApproachStep
    \/ Adjacency
    \/ GenReturn

SpecSeven == InitSeven /\ [][NextSeven]_vars

----------------------------------------------------------------------------
(* C39: the breadth-first supplement of findMultiplePaths *)

\* findMultiplePaths returns: dfs(start, []) is over and the rest runs
PathsReturn == paths.phase = "dfs" /\ paths'.phase = "done"

\* C39: in findMultiplePaths the breadth-first supplement never adds a path:
\* for every grid, start, end and maxPaths the list of paths is the same
\* before and after the block guarded by paths.length < 2, so the result is
\* the sorted list of the paths found by the depth-first enumeration. The
\* search of the block is applied to the list of every call, also where the
\* guard (fewer than two paths, more than 5 rows and columns) keeps the code
\* from running it.
C39_SupplementAddsNothing ==
    [][PathsReturn =>
          /\ pathsBfs(heap, mazeData.grid, mazeData.endPosition, paths.maxPaths,
                      << [pos |-> paths.start, path |-> << paths.start >>] >>,
                      {paths.start}, paths.list) = paths.list
          /\ paths'.list = SortPaths(paths.list, 1, << >>)]_vars

\* a call with maxPaths >= 2 on a grid larger than 5x5 has returned a single
\* path of two or more cells: the block ran and its search came to the end
C39_Witness ==
    /\ paths.phase = "done"
    /\ paths.maxPaths >= 2
    /\ GridHeight(mazeData.grid) > 5
    /\ GridWidth(heap, mazeData.grid) > 5
    /\ Len(paths.list) = 1
    /\ Len(paths.list[1]) >= 2

====
